---- MODULE Spec2Model ----
(***************************************************************************)
(* CopyLab notification engine: template selection and rendering           *)
(* (src/src/copylab.py) and the HTTP endpoint that drives it               *)
(* (src/src/api.py).                                                       *)
(*                                                                         *)
(* Python strings are sequences of one-character strings, so that          *)
(* placeholder scanning, replacement, truncation and comparison are        *)
(* computed character by character as the code computes them.              *)
(* Python scalars are tagged records (PyStr, PyInt, PyBool, PyNone) and    *)
(* str() is the conversion Str.  Python dicts are functions whose DOMAIN   *)
(* is the set of keys that are present.                                    *)
(***************************************************************************)
EXTENDS Integers, Sequences, FiniteSets, TLC

(***************************************************************************)
(* Bounds of the model                                                     *)
(***************************************************************************)
\* number of template documents of the placement (document ids "1".."N")
NumTemplates == 2

\* longest list of filter rules, longest list of cases of one rule
MaxRules == 2

MaxCases == 2

\* the longest list of candidate templates handed to the condition filter
\* and to the weighted selector
MaxCandidates == 3

\* the requests a run of the topic endpoints answers
MaxRequests == 3

(***************************************************************************)
(* Python values                                                           *)
(***************************************************************************)
PyStr(s) == [t |-> "str", s |-> s, n |-> 0, b |-> FALSE]

PyInt(n) == [t |-> "int", s |-> <<>>, n |-> n, b |-> FALSE]

PyBool(b) == [t |-> "bool", s |-> <<>>, n |-> 0, b |-> b]

PyNone == [t |-> "none", s |-> <<>>, n |-> 0, b |-> FALSE]

\* decimal digit characters
Digits == <<"0", "1", "2", "3", "4", "5", "6", "7", "8", "9">>

\* str(n) for a non-negative int
RECURSIVE IntToStr(_)
IntToStr(n) ==
    IF n < 10 THEN <<Digits[n + 1]>>
    ELSE IntToStr(n \div 10) \o <<Digits[(n % 10) + 1]>>

\* str(v) for a Python scalar
Str(v) ==
    CASE v.t = "str" -> v.s
      [] v.t = "int" -> IntToStr(v.n)
      [] v.t = "bool" -> IF v.b THEN <<"T", "r", "u", "e">>
                                ELSE <<"F", "a", "l", "s", "e">>
      [] OTHER -> <<"N", "o", "n", "e">>

\* Python truthiness of a scalar
Truthy(v) ==
    CASE v.t = "str" -> v.s # <<>>
      [] v.t = "int" -> v.n # 0
      [] v.t = "bool" -> v.b
      [] OTHER -> FALSE

\* dict.get(k, default)
Get(d, k, default) == IF k \in DOMAIN d THEN d[k] ELSE default

\* the empty dict
EmptyDict == <<>>

\* d1.copy(); .update(d2): keys of d2 win
DictUpdate(d1, d2) ==
    [k \in (DOMAIN d1) \cup (DOMAIN d2) |-> IF k \in DOMAIN d2 THEN d2[k] ELSE d1[k]]

(***************************************************************************)
(* Strings                                                                 *)
(***************************************************************************)
\* code point order of the characters of the model's alphabet
Ord(c) ==
    CASE c = "." -> 46
      [] c = "0" -> 48 [] c = "1" -> 49 [] c = "2" -> 50 [] c = "3" -> 51
      [] c = "4" -> 52 [] c = "5" -> 53 [] c = "6" -> 54 [] c = "7" -> 55
      [] c = "8" -> 56 [] c = "9" -> 57
      [] c = "F" -> 70 [] c = "N" -> 78 [] c = "T" -> 84
      [] c = "a" -> 97 [] c = "b" -> 98 [] c = "e" -> 101 [] c = "l" -> 108
      [] c = "n" -> 110 [] c = "o" -> 111 [] c = "r" -> 114 [] c = "s" -> 115
      [] c = "u" -> 117 [] c = "x" -> 120 [] c = "y" -> 121
      [] c = "{" -> 123 [] c = "}" -> 125
      [] OTHER -> 63

\* s[i:] of Python (1-based i here)
Suffix(s, i) == SubSeq(s, i, Len(s))

\* s.startswith(p) at position i
MatchesAt(s, i, p) ==
    /\ i + Len(p) - 1 <= Len(s)
    /\ SubSeq(s, i, i + Len(p) - 1) = p

\* pat in s
Contains(s, pat) == \E i \in 1..(Len(s) + 1) : MatchesAt(s, i, pat)

\* s.replace(pat, val) for a non-empty pat: every non-overlapping
\* occurrence, left to right
RECURSIVE ReplaceFrom(_, _, _, _)
ReplaceFrom(s, i, pat, val) ==
    IF i > Len(s) THEN <<>>
    ELSE IF MatchesAt(s, i, pat)
         THEN val \o ReplaceFrom(s, i + Len(pat), pat, val)
         ELSE <<s[i]>> \o ReplaceFrom(s, i + 1, pat, val)

Replace(s, pat, val) == ReplaceFrom(s, 1, pat, val)

\* a < b in Python's string order
RECURSIVE StrLess(_, _)
StrLess(a, b) ==
    IF b = <<>> THEN FALSE
    ELSE IF a = <<>> THEN TRUE
    ELSE IF Ord(a[1]) # Ord(b[1]) THEN Ord(a[1]) < Ord(b[1])
    ELSE StrLess(Tail(a), Tail(b))

\* s[:k] of Python, k possibly negative
SliceTo(s, k) ==
    IF k >= 0 THEN SubSeq(s, 1, IF k < Len(s) THEN k ELSE Len(s))
    ELSE SubSeq(s, 1, IF Len(s) + k > 0 THEN Len(s) + k ELSE 0)

\* index of the first "}" at or after position i, 0 when there is none
RECURSIVE FirstClose(_, _)
FirstClose(s, i) ==
    IF i > Len(s) THEN 0
    ELSE IF s[i] = "}" THEN i
    ELSE FirstClose(s, i + 1)

\* re.findall(r'\{([^}]+)\}', s): the names of the placeholders of s in
\* order of occurrence, duplicates kept
RECURSIVE FindAllFrom(_, _)
FindAllFrom(s, i) ==
    IF i > Len(s) THEN <<>>
    ELSE IF s[i] = "{"
         THEN LET j == FirstClose(s, i + 1)
              IN  IF j > i + 1
                  THEN <<SubSeq(s, i + 1, j - 1)>> \o FindAllFrom(s, j + 1)
                  ELSE FindAllFrom(s, i + 1)
         ELSE FindAllFrom(s, i + 1)

FindAll(s) == FindAllFrom(s, 1)

\* float(s) for the strings of the model: digits with at most one ".",
\* at least one digit; value num / den.  Anything else is a ValueError.
IsDigit(c) == \E k \in 1..10 : Digits[k] = c

DigitVal(c) == (CHOOSE k \in 1..10 : Digits[k] = c) - 1

RECURSIVE DigitsVal(_)
DigitsVal(s) ==
    IF s = <<>> THEN 0
    ELSE DigitsVal(SubSeq(s, 1, Len(s) - 1)) * 10 + DigitVal(s[Len(s)])

RECURSIVE Pow10(_)
Pow10(k) == IF k = 0 THEN 1 ELSE 10 * Pow10(k - 1)

DotPositions(s) == {i \in 1..Len(s) : s[i] = "."}

FloatOk(s) ==
    /\ \A i \in 1..Len(s) : IsDigit(s[i]) \/ s[i] = "."
    /\ Cardinality(DotPositions(s)) <= 1
    /\ \E i \in 1..Len(s) : IsDigit(s[i])

FloatNum(s) == DigitsVal(SelectSeq(s, IsDigit))

FloatDen(s) ==
    IF DotPositions(s) = {} THEN 1
    ELSE Pow10(Len(s) - (CHOOSE i \in DotPositions(s) : TRUE))

(***************************************************************************)
(* Condition evaluator                                                     *)
(***************************************************************************)
\* what a call gives back: a returned value or an exception that leaves it
Value(v) == [kind |-> "returned", value |-> v]

Exception(e) == [kind |-> "raised", error |-> e]

\* float(s): a ValueError for a string that is not a number
Float(s) ==
    IF FloatOk(s) THEN [raised |-> FALSE, num |-> FloatNum(s), den |-> FloatDen(s)]
    ELSE [raised |-> TRUE, num |-> 0, den |-> 1]

\* mutant: greater_than without its except clause
GreaterThan_Uncaught(actual_str, target_str) ==
    LET a == Float(actual_str)
        b == Float(target_str)
    IN  IF a.raised \/ b.raised THEN Exception("ValueError")
        ELSE Value(a.num * b.den > b.num * a.den)

\* the greater_than branch: float comparison, string comparison when
\* float() raises ValueError
GreaterThan(actual_str, target_str) ==
    LET a == Float(actual_str)
        b == Float(target_str)
    IN  IF a.raised \/ b.raised THEN Value(StrLess(target_str, actual_str))
        ELSE Value(a.num * b.den > b.num * a.den)

\* the less_than branch
LessThan(actual_str, target_str) ==
    LET a == Float(actual_str)
        b == Float(target_str)
    IN  IF a.raised \/ b.raised THEN Value(StrLess(actual_str, target_str))
        ELSE Value(a.num * b.den < b.num * a.den)

\* mutant: an empty string counts as existing
Exists_EmptyCounts(actual_value) == Value(actual_value # PyNone)

\* the exists operator: "actual_value is not None and actual_value != ''"
Exists(actual_value) == Value(actual_value # PyNone /\ actual_value # PyStr(<<>>))

\* mutant: an absent variable fails every operator
Absent_Fails(operator) == Value(FALSE)

\* the result for a variable that is absent (variables.get gave None)
Absent(operator) == Value(operator = "not_equals")

\* evaluate_condition(condition, variables)
evaluate_condition(condition, variables) ==
    LET var_name == Get(condition, "variable", <<>>)
        operator == Get(condition, "operator", "equals")
        target_value == Get(condition, "value", PyStr(<<>>))
        actual_value == Get(variables, var_name, PyNone)
        actual_str == Str(actual_value)
        target_str == Str(target_value)
    IN  IF operator = "exists" THEN Exists(actual_value)
        ELSE IF actual_value = PyNone THEN Absent(operator)
        ELSE CASE operator = "equals" -> Value(actual_str = target_str)
               [] operator = "not_equals" -> Value(actual_str # target_str)
               [] operator = "contains" -> Value(Contains(actual_str, target_str))
               [] operator = "greater_than" -> GreaterThan(actual_str, target_str)
               [] operator = "less_than" -> LessThan(actual_str, target_str)
               [] OTHER -> Value(FALSE)

(***************************************************************************)
(* Template filter resolver                                                *)
(***************************************************************************)
\* the set of the elements of a list
Range(s) == {s[i] : i \in 1..Len(s)}

\* the None sentinel of apply_template_filters and a list result
NoRestriction == [isNone |-> TRUE, ids |-> {}]

Restricted(S) == [isNone |-> FALSE, ids |-> S]

\* mutant: no break, the last matching case wins
RECURSIVE FirstMatch_Last(_, _, _)
FirstMatch_Last(cases, i, actual_value) ==
    IF i > Len(cases) THEN [matched |-> FALSE, ids |-> <<>>]
    ELSE LET later == FirstMatch_Last(cases, i + 1, actual_value)
         IN  IF later.matched THEN later
             ELSE IF actual_value = Str(Get(cases[i], "value", PyStr(<<>>)))
                  THEN [matched |-> TRUE, ids |-> Get(cases[i], "templateIds", <<>>)]
                  ELSE later

\* the "for case in cases ... break" loop: templateIds of the first case
\* whose str(value) equals actual_value; matched tells whether one matched
RECURSIVE FirstMatch(_, _, _)
FirstMatch(cases, i, actual_value) ==
    IF i > Len(cases) THEN [matched |-> FALSE, ids |-> <<>>]
    ELSE IF actual_value = Str(Get(cases[i], "value", PyStr(<<>>)))
         THEN [matched |-> TRUE, ids |-> Get(cases[i], "templateIds", <<>>)]
         ELSE FirstMatch(cases, i + 1, actual_value)

\* mutant: a matched case with an empty id list falls back to the default
MatchedIds_EmptyFallsBack(filter_config, variables) ==
    LET input_var == Get(filter_config, "inputVariable", <<>>)
        cases == Get(filter_config, "cases", <<>>)
        default_ids == Get(filter_config, "defaultTemplateIds", <<>>)
        actual_value == Str(Get(variables, input_var, PyStr(<<>>)))
        m == FirstMatch(cases, 1, actual_value)
    IN  IF m.matched /\ m.ids # <<>> THEN m.ids ELSE default_ids

\* matched_ids of one filter rule
MatchedIds(filter_config, variables) ==
    LET input_var == Get(filter_config, "inputVariable", <<>>)
        cases == Get(filter_config, "cases", <<>>)
        default_ids == Get(filter_config, "defaultTemplateIds", <<>>)
        actual_value == Str(Get(variables, input_var, PyStr(<<>>)))
        m == FirstMatch(cases, 1, actual_value)
    IN  IF m.matched THEN m.ids ELSE default_ids

\* eligible_sets: set(matched_ids) of every rule with non-empty matched_ids
RECURSIVE EligibleSets(_, _, _)
EligibleSets(filters, i, variables) ==
    IF i > Len(filters) THEN <<>>
    ELSE LET ids == MatchedIds(filters[i], variables)
         IN  (IF ids # <<>> THEN <<Range(ids)>> ELSE <<>>)
                \o EligibleSets(filters, i + 1, variables)

RECURSIVE IntersectAll(_, _)
IntersectAll(sets, i) ==
    IF i > Len(sets) THEN sets[1]
    ELSE IntersectAll(sets, i + 1) \cap sets[i]

\* mutant: "return list(result) if result else None" - an empty
\* intersection reported as no restriction
apply_template_filters_EmptyIsNone(filters, variables) ==
    IF filters = <<>> THEN NoRestriction
    ELSE LET eligible_sets == EligibleSets(filters, 1, variables)
         IN  IF eligible_sets = <<>> \/ IntersectAll(eligible_sets, 1) = {}
             THEN NoRestriction
             ELSE Restricted(IntersectAll(eligible_sets, 1))

\* apply_template_filters(filters, variables)
apply_template_filters(filters, variables) ==
    IF filters = <<>> THEN NoRestriction
    ELSE LET eligible_sets == EligibleSets(filters, 1, variables)
         IN  IF eligible_sets = <<>> THEN NoRestriction
             ELSE Restricted(IntersectAll(eligible_sets, 1))

(***************************************************************************)
(* Condition filter and weighted selector                                  *)
(***************************************************************************)
\* mutant: one matching condition is enough
AllMatch_Any(conditions, variables) ==
    \E i \in 1..Len(conditions) :
        LET c == evaluate_condition(conditions[i], variables)
        IN  c.kind = "returned" /\ c.value

\* all(evaluate_condition(c, variables) for c in conditions)
AllMatch(conditions, variables) ==
    \A i \in 1..Len(conditions) :
        LET c == evaluate_condition(conditions[i], variables)
        IN  c.kind = "returned" /\ c.value

\* _filter_templates_by_conditions(templates, variables)
RECURSIVE FilterByConditionsFrom(_, _, _)
FilterByConditionsFrom(templates, i, variables) ==
    IF i > Len(templates) THEN <<>>
    ELSE LET conditions == Get(templates[i], "conditions", <<>>)
         IN  (IF conditions = <<>> \/ AllMatch(conditions, variables)
              THEN <<templates[i]>> ELSE <<>>)
                \o FilterByConditionsFrom(templates, i + 1, variables)

_filter_templates_by_conditions(templates, variables) ==
    FilterByConditionsFrom(templates, 1, variables)

RECURSIVE SumWeights(_, _)
SumWeights(templates, i) ==
    IF i > Len(templates) THEN 0
    ELSE Get(templates[i], "weight", 0) + SumWeights(templates, i + 1)

\* mutant: every template is a possible outcome, whatever its weight
_weighted_random_choice_Uniform(templates) == Range(templates)

\* _weighted_random_choice(templates): the set of the templates the random
\* draw can return (probability > 0); empty for the None result
_weighted_random_choice(templates) ==
    IF templates = <<>> THEN {}
    ELSE LET total_weight == SumWeights(templates, 1)
             templates_with_weight ==
                 {t \in Range(templates) : Get(t, "weight", 0) > 0}
         IN  IF total_weight > 0
             THEN IF templates_with_weight = {} THEN Range(templates)
                  ELSE templates_with_weight
             ELSE Range(templates)

(***************************************************************************)
(* Template renderer                                                       *)
(***************************************************************************)
\* "{" + var_name + "}"
Braced(var_name) == <<"{">> \o var_name \o <<"}">>

\* mutant: the bare default key is looked up before the brace-wrapped one
PlaceholderValue_BareFirst(var_name, variables, defaults) ==
    IF var_name \in DOMAIN variables THEN Str(variables[var_name])
    ELSE IF var_name \in DOMAIN defaults THEN Str(defaults[var_name])
    ELSE IF Braced(var_name) \in DOMAIN defaults THEN Str(defaults[Braced(var_name)])
    ELSE Braced(var_name)

\* the value one placeholder is replaced by
PlaceholderValue(var_name, variables, defaults) ==
    IF var_name \in DOMAIN variables THEN Str(variables[var_name])
    ELSE IF Braced(var_name) \in DOMAIN defaults THEN Str(defaults[Braced(var_name)])
    ELSE IF var_name \in DOMAIN defaults THEN Str(defaults[var_name])
    ELSE Braced(var_name)

\* mutant: the loop ends at the first placeholder without a value
RECURSIVE ApplyLoop_StopsAtUnresolved(_, _, _, _, _)
ApplyLoop_StopsAtUnresolved(result, placeholders, i, variables, defaults) ==
    IF i > Len(placeholders) THEN result
    ELSE IF PlaceholderValue(placeholders[i], variables, defaults) = Braced(placeholders[i])
    THEN result
    ELSE ApplyLoop_StopsAtUnresolved(
             Replace(result, Braced(placeholders[i]),
                     PlaceholderValue(placeholders[i], variables, defaults)),
             placeholders, i + 1, variables, defaults)

\* the "for var_name in placeholders" loop
RECURSIVE ApplyLoop(_, _, _, _, _)
ApplyLoop(result, placeholders, i, variables, defaults) ==
    IF i > Len(placeholders) THEN result
    ELSE ApplyLoop(Replace(result, Braced(placeholders[i]),
                           PlaceholderValue(placeholders[i], variables, defaults)),
                   placeholders, i + 1, variables, defaults)

\* apply_template(template_string, variables, defaults)
apply_template(template_string, variables, defaults) ==
    IF template_string = <<>> THEN <<>>
    ELSE ApplyLoop(template_string, FindAll(template_string), 1, variables, defaults)

\* the ellipsis marker
Ellipsis == <<".", ".", ".">>

\* the truncation of _process_notification_content
Truncate(processed_message, max_length) ==
    IF Truthy(max_length) /\ Len(processed_message) > max_length.n
    THEN SliceTo(processed_message, max_length.n - 3) \o Ellipsis
    ELSE processed_message

\* _process_notification_content(title, message, data, variables, defaults, max_length)
_process_notification_content(title, message, data, variables, defaults, max_length) ==
    [title |-> apply_template(title, variables, defaults),
     message |-> Truncate(apply_template(message, variables, defaults), max_length),
     data |-> [k \in DOMAIN data |->
                 IF data[k].t = "str"
                 THEN PyStr(apply_template(data[k].s, variables, defaults))
                 ELSE data[k]]]

(***************************************************************************)
(* Document store and process-wide configuration                           *)
(***************************************************************************)
\* the tenants of the store (app ids)
AppA == <<"A">>

AppB == <<"B">>

Apps == {AppA, AppB}

\* the placement every call asks for
PlacementId == <<"p">>

\* template document ids "1" .. "N"
IdOf(i) == IntToStr(i)

TemplateIds == {IdOf(i) : i \in 1..NumTemplates}

\* string literals of the code
FALLBACK_ID == <<"f", "a", "l", "l", "b", "a", "c", "k">>

FALLBACK_NAME == <<"F", "a", "l", "l", "b", "a", "c", "k">>

UNKNOWN_ID == <<"u", "n", "k", "n", "o", "w", "n">>

UNKNOWN_NAME == <<"U", "n", "k", "n", "o", "w", "n">>

NOTIFICATION == <<"N", "o", "t", "i", "f", "i", "c", "a", "t", "i", "o", "n">>

\* default of generate_notification's max_length parameter
DefaultMaxLength == 200

\* a value a caller or a document author may try to plant in attribution keys
HACKED == PyStr(<<"b", "a", "d">>)

\* the attribution keys
AttributionKeys ==
    {"copylab_placement_id", "copylab_placement_name",
     "copylab_template_id", "copylab_template_name"}

\* a list element or argument that is not a mapping (a JSON string where an
\* object is expected): any dict method called on it raises
IsMapping(v) == "t" \notin DOMAIN v

NotAMapping == PyStr(<<"x">>)

VARIABLES
    db,                     \* db[app]: placement document, templates, API keys
    _CONFIG,                \* the process-wide configuration of copylab.py
    pc,                     \* pc[r]: position of call r
    args,                   \* args[r]: entry point and arguments of call r
    placement_config,       \* local of generate_notification
    eligible_template_ids,  \* local of generate_notification
    template,               \* local of generate_notification
    result,                 \* result[r]: what call r returned or raised
    reads,                  \* reads[r]: the store operations call r performed
    request,                \* request[r]: the HTTP request r, as received
    response,               \* response[r]: the HTTP response to request r
    collections,            \* collections[app]: the documents the endpoints write
    inputs,                 \* the arguments of a call of one of the pure functions
    output,                 \* what that call returned or raised
    history,                \* the requests the endpoints answered, in order
    sdk,                    \* the class attributes of the client SDK
    heap                    \* heap[o]: the items of mapping object o

vars == <<db, _CONFIG, pc, args, placement_config, eligible_template_ids,
          template, result, reads, request, response, collections, inputs, output,
          history, sdk, heap>>

\* s.split(sep) for a one-character separator
RECURSIVE SplitFrom(_, _, _, _)
SplitFrom(s, i, sep, part) ==
    IF i > Len(s) THEN <<part>>
    ELSE IF s[i] = sep THEN <<part>> \o SplitFrom(s, i + 1, sep, <<>>)
    ELSE SplitFrom(s, i + 1, sep, Append(part, s[i]))

Split(s, sep) == SplitFrom(s, 1, sep, <<>>)

\* the prefix every API key starts with
KEY_PREFIX == <<"c", "l", "_">>

\* configure(api_key=api_key, app_id=app_id); None: the parameter is omitted
configure(config, api_key, app_id) ==
    [api_key |-> IF Truthy(api_key) THEN api_key ELSE config.api_key,
     app_id |-> IF Truthy(app_id) THEN app_id ELSE config.app_id]

\* get_app_id()
get_app_id(config) ==
    IF Truthy(config.app_id) THEN config.app_id.s
    ELSE IF Truthy(config.api_key) /\ MatchesAt(config.api_key.s, 1, KEY_PREFIX)
         THEN Split(config.api_key.s, "_")[2]
         ELSE UNKNOWN_ID

\* the None results
NoConfig == [isNone |-> TRUE]

NoTemplate == [isNone |-> TRUE]

NoResult == [kind |-> "none"]

NoResponse == [status |-> 0]

NoRequest == [endpoint |-> "none"]

\* no mapping object allocated
NoHeap == <<>>

\* CopyLab._api_key and CopyLab._user_id before any call
NoSdk == [_api_key |-> PyNone, _user_id |-> PyNone]

NoInputs == [fn |-> "none"]

NoOutput == [kind |-> "none"]

\* copylab_topics, copylab_push_open, copylab_users and the app_opens
\* subcollections of the users of an app before any endpoint wrote to them
EmptyCollections ==
    [copylab_topics |-> <<>>, copylab_push_open |-> <<>>, copylab_users |-> <<>>,
     app_opens |-> <<>>]

\* get_placement_config(placement_id) against the documents of one app;
\* failed: the store read raised
get_placement_config(store, failed) ==
    IF failed \/ ~store.exists THEN NoConfig
    ELSE LET data == store.parent
         IN  [isNone |-> FALSE,
              id |-> PlacementId,
              name |-> Get(data, "name", PlacementId),
              variables |-> Get(data, "variables", <<>>),
              defaults |-> Get(data, "previewDefaults", EmptyDict),
              default_data |-> Get(data, "defaultData", EmptyDict),
              templateFilters |-> Get(data, "templateFilters", <<>>),
              activeTemplateId |-> Get(data, "activeTemplateId", PyNone)]

\* mutant: "if template.get('isActive'):" - any truthy value passes
IsActive_Truthy(doc) == Truthy(Get(doc, "isActive", PyNone))

\* template.get('isActive') is True
IsActive(doc) == Get(doc, "isActive", PyNone) = PyBool(TRUE)

\* the _placement_* fields both paths of get_random_template inject
WithPlacement(doc, parent_data) ==
    [k \in (DOMAIN doc) \cup {"_placement_id", "_placement_name",
                              "_placement_defaults", "_placement_variables",
                              "_placement_data"} |->
        CASE k = "_placement_id" -> PlacementId
          [] k = "_placement_name" -> Get(parent_data, "name", PlacementId)
          [] k = "_placement_defaults" -> Get(parent_data, "previewDefaults", EmptyDict)
          [] k = "_placement_variables" -> Get(parent_data, "variables", <<>>)
          [] k = "_placement_data" -> Get(parent_data, "defaultData", EmptyDict)
          [] OTHER -> doc[k]]

\* template['id'] = template_doc.id
WithId(doc, id) ==
    [k \in (DOMAIN doc) \cup {"id"} |-> IF k = "id" THEN id ELSE doc[k]]

\* the active-ID path: the active documents named by activeTemplateIds
RECURSIVE ActiveListed(_, _, _)
ActiveListed(store, active_ids, i) ==
    IF i > Len(active_ids) THEN <<>>
    ELSE LET template_id == active_ids[i]
         IN  (IF template_id \in DOMAIN store.templates
                 /\ IsActive(store.templates[template_id])
              THEN <<WithPlacement(WithId(store.templates[template_id], template_id),
                                   store.parent)>>
              ELSE <<>>)
                \o ActiveListed(store, active_ids, i + 1)

\* the full scan: the active documents of the collection, in id order
RECURSIVE ActiveScanned(_, _)
ActiveScanned(store, i) ==
    IF i > NumTemplates THEN <<>>
    ELSE LET doc_id == IdOf(i)
         IN  (IF doc_id \in DOMAIN store.templates
                 /\ IsActive(store.templates[doc_id])
              THEN LET data == store.templates[doc_id]
                   IN  <<WithPlacement(IF "id" \in DOMAIN data THEN data
                                       ELSE WithId(data, doc_id),
                                       store.parent)>>
              ELSE <<>>)
                \o ActiveScanned(store, i + 1)

\* [t for t in templates if t.get('id') in eligible_template_ids]
RECURSIVE RestrictTo(_, _, _)
RestrictTo(templates, ids, i) ==
    IF i > Len(templates) THEN <<>>
    ELSE (IF Get(templates[i], "id", <<>>) \in ids THEN <<templates[i]>> ELSE <<>>)
            \o RestrictTo(templates, ids, i + 1)

\* mutant: "if eligible_template_ids:" - an empty list restricts nothing
RestrictEligible_Truthy(templates, eligible) ==
    IF eligible.ids # {} THEN RestrictTo(templates, eligible.ids, 1) ELSE templates

\* "if eligible_template_ids is not None: templates = [...]"
RestrictEligible(templates, eligible) ==
    IF ~eligible.isNone THEN RestrictTo(templates, eligible.ids, 1) ELSE templates

\* outcomes of get_random_template: the templates the call can return (none
\* for a None result) and whether its except clause was entered
Returns(S) == [failed |-> FALSE, templates |-> S]

Excepted == [failed |-> TRUE, templates |-> {}]

\* the full-scan half of get_random_template; fail = "stream": the scan raised
ScanPath(store, variables, eligible, fail) ==
    IF fail = "stream" THEN Excepted
    ELSE LET templates == ActiveScanned(store, 1)
         IN  IF templates = <<>> THEN Returns({})
             ELSE LET restricted == RestrictEligible(templates, eligible)
                  IN  IF restricted = <<>> THEN Returns({})
                      ELSE Returns(_weighted_random_choice(
                               _filter_templates_by_conditions(restricted, variables)))

\* get_random_template(placement_id, variables, eligible_template_ids) against
\* the documents of one app.  fail names the store read that raises, if any:
\* "parent" (the placement document), "docs" (a listed template document),
\* "stream" (the collection scan) or "none".
get_random_template(store, variables, eligible, fail) ==
    IF fail = "parent" THEN Excepted
    ELSE IF ~store.exists THEN Returns({})
    ELSE LET active_ids == Get(store.parent, "activeTemplateIds", <<>>)
         IN  IF active_ids # <<>>
             THEN IF fail = "docs" THEN Excepted
                  ELSE LET all_templates == ActiveListed(store, active_ids, 1)
                           restricted == RestrictEligible(all_templates, eligible)
                           chosen == _weighted_random_choice(
                                _filter_templates_by_conditions(restricted, variables))
                       IN  IF all_templates # <<>> /\ restricted = <<>> THEN Returns({})
                           ELSE IF all_templates # <<>> /\ chosen # {} THEN Returns(chosen)
                           ELSE ScanPath(store, variables, eligible, fail)
             ELSE ScanPath(store, variables, eligible, fail)

(***************************************************************************)
(* Inputs: documents of the store and arguments of the calls               *)
(***************************************************************************)
\* the variable name used by conditions, filters and placeholders
x == <<"x">>

\* a variable named like an attribution key
COPYLAB_TEMPLATE_ID_VAR ==
    <<"c", "o", "p", "y", "l", "a", "b", "_", "t", "e", "m", "p", "l", "a", "t",
      "e", "_", "i", "d">>

\* the caller's variable sets
VarSets ==
    {EmptyDict,
     (x :> PyStr(<<"a">>)) @@ (COPYLAB_TEMPLATE_ID_VAR :> HACKED)}

\* the caller's data arguments: omitted, a mapping that tries to set
\* attribution keys, and a value that is not a mapping
CallerData ==
    ("copylab_template_id" :> HACKED) @@ ("copylab_placement_name" :> HACKED)
        @@ ("k" :> PyStr(<<"{", "x", "}">>)) @@ ("n" :> PyInt(7))

DataArgs == {PyNone, CallerData, NotAMapping}

\* fallback_title / fallback_message arguments; given = FALSE: omitted
FallbackArgs ==
    {[given |-> FALSE, title |-> PyNone, message |-> PyNone],
     [given |-> TRUE, title |-> PyStr(<<"{", "x", "}", "!">>),
      message |-> PyStr(<<"{", "x", "}", "a", "b", "a", "b">>)]}

\* an explicit max_length short enough for the bodies of the model
ShortMaxLength == 4

MaxLengthArgs == {PyInt(DefaultMaxLength), PyInt(ShortMaxLength)}

\* template data and placement default data that try to set attribution keys
TemplateData ==
    ("copylab_template_name" :> HACKED) @@ ("copylab_template_id" :> HACKED)
        @@ ("k" :> PyStr(<<"t">>)) @@ ("j" :> PyStr(<<"{", "x", "}">>))

PlacementData ==
    ("copylab_placement_id" :> HACKED) @@ ("d" :> PyStr(<<"{", "x", "}">>))

PreviewDefaults == (<<"{", "x", "}">> :> PyStr(<<"D">>))

\* name of the template document with id id
NameOf(id) == <<"n">> \o id

\* the documents template id id can hold
TemplateDocs(id) ==
    {[isActive |-> PyBool(TRUE), name |-> NameOf(id), weight |-> 1,
      title_template |-> <<"{", "x", "}">>,
      body_template |-> <<"a", "b", "{", "x", "}", "c", "d">>],
     [isActive |-> PyBool(TRUE), name |-> NameOf(id), weight |-> 0,
      title_template |-> <<"t">>, body_template |-> <<"{", "x", "}">>,
      conditions |-> <<[variable |-> x, operator |-> "equals",
                        value |-> PyStr(<<"a">>)]>>,
      data |-> TemplateData],
     [isActive |-> PyInt(1), name |-> NameOf(id), weight |-> 1,
      title_template |-> <<"i">>, body_template |-> <<"i">>],
     [isActive |-> PyBool(FALSE), name |-> NameOf(id), weight |-> 1,
      title_template |-> <<"f">>, body_template |-> <<"f">>],
     [name |-> NameOf(id), weight |-> 1,
      title_template |-> <<"m">>, body_template |-> <<"m">>]}

\* filter rules: x = "a" selects template 1; x = "a" (or no match) selects
\* the last template
RuleFirst ==
    [inputVariable |-> x,
     cases |-> <<[value |-> PyStr(<<"a">>), templateIds |-> <<IdOf(1)>>]>>,
     defaultTemplateIds |-> <<>>]

RuleLast ==
    [inputVariable |-> x,
     cases |-> <<[value |-> PyStr(<<"a">>), templateIds |-> <<IdOf(NumTemplates)>>]>>,
     defaultTemplateIds |-> <<IdOf(NumTemplates)>>]

FilterLists == {<<>>, <<RuleFirst>>, <<RuleFirst, RuleLast>>}

ActiveIdLists == {<<>>, <<IdOf(1)>>, <<IdOf(NumTemplates), IdOf(1)>>}

\* the placement documents: every combination of filter rules and active-id
\* list, a document with no field at all, and one whose templateFilters
\* holds an element that is not a mapping
ParentDocs ==
    {[name |-> <<"P">>, previewDefaults |-> PreviewDefaults,
      defaultData |-> PlacementData,
      templateFilters |-> f, activeTemplateIds |-> a] :
        f \in FilterLists, a \in ActiveIdLists}
    \cup {EmptyDict}
    \cup {[name |-> <<"P">>, templateFilters |-> <<RuleFirst, NotAMapping>>,
           activeTemplateIds |-> <<IdOf(1)>>]}

\* the template collections: every id absent or holding one of its documents
TemplateCollections ==
    UNION {{c \in [present -> UNION {TemplateDocs(id) : id \in TemplateIds}] :
                \A id \in present : c[id] \in TemplateDocs(id)}
            : present \in SUBSET TemplateIds}

EmptyStore ==
    [exists |-> FALSE, parent |-> EmptyDict, templates |-> EmptyDict, api_keys |-> {}]

Stores ==
    {EmptyStore}
    \cup {[exists |-> TRUE, parent |-> p, templates |-> c, api_keys |-> {}] :
            p \in ParentDocs, c \in TemplateCollections}

(***************************************************************************)
(* Calls of generate_notification / generate_notification_safe             *)
(***************************************************************************)
\* the calls in flight
Calls == {1, 2}

EntryPoints == {"generate_notification", "generate_notification_safe"}

\* get_collection_ref: the documents a read scoped to app sees; the root
\* collections used for an empty or unknown app id hold no document
Scoped(app) == IF app \in DOMAIN db THEN db[app] ELSE EmptyStore

\* "data or {}" (the variables argument of the model is always a mapping,
\* the empty one when omitted, so "variables or {}" leaves it as it is)
OrEmptyDict(v) ==
    IF IsMapping(v) THEN v ELSE IF Truthy(v) THEN v ELSE EmptyDict

\* "fallback_title or ''"
OrEmptyStr(v) == IF Truthy(v) THEN v.s ELSE <<>>

\* one store read in the history of a call
Read(op, app, ok) == [op |-> op, app |-> app, ok |-> ok]

\* mutant: the except clause builds the record of the fallback branch
SafeErrorResult_Attributed(a, e) ==
    [kind |-> "returned",
     title |-> a.fallback_title,
     message |-> a.fallback_message,
     data |-> IF IsMapping(OrEmptyDict(a.data))
              THEN [k \in (DOMAIN OrEmptyDict(a.data)) \cup AttributionKeys |->
                        CASE k = "copylab_placement_id" -> PyStr(PlacementId)
                          [] k = "copylab_placement_name" -> PyStr(PlacementId)
                          [] k = "copylab_template_id" -> PyStr(FALLBACK_ID)
                          [] k = "copylab_template_name" -> PyStr(FALLBACK_NAME)
                          [] OTHER -> a.data[k]]
              ELSE EmptyDict,
     template_used |-> FALSE,
     template_name |-> PyNone,
     error |-> e]

\* the except clause of generate_notification_safe
SafeErrorResult(a, e) ==
    [kind |-> "returned",
     title |-> a.fallback_title,
     message |-> a.fallback_message,
     data |-> OrEmptyDict(a.data),
     template_used |-> FALSE,
     template_name |-> PyNone,
     error |-> e]

\* mutant: no except clause, the exception reaches the caller of either entry
Raise_Propagates(r, e) ==
    /\ result' = [result EXCEPT ![r] = [kind |-> "raised", error |-> e]]
    /\ pc' = [pc EXCEPT ![r] = "done"]

\* what the caller of the entry point sees when exception e leaves
\* generate_notification: generate_notification_safe converts it
ExceptionResult(a, e) ==
    IF a.entry = "generate_notification_safe" THEN SafeErrorResult(a, e)
    ELSE [kind |-> "raised", error |-> e]

\* an exception e leaves generate_notification
Raise(r, e) ==
    /\ result' = [result EXCEPT ![r] = ExceptionResult(args[r], e)]
    /\ pc' = [pc EXCEPT ![r] = "done"]

\* the call itself: arguments bound, defaults of the entry point applied
Call(r, entry, variables, data, fallback, max_length) ==
    /\ pc[r] = "idle"
    /\ entry = "generate_notification_safe" => max_length = PyInt(DefaultMaxLength)
    /\ args' = [args EXCEPT ![r] =
            [entry |-> entry,
             caller |-> "direct",
             variables |-> variables,
             data |-> data,
             fallback_title |->
                IF fallback.given THEN fallback.title
                ELSE IF entry = "generate_notification_safe" THEN PyStr(NOTIFICATION)
                ELSE PyNone,
             fallback_message |->
                IF fallback.given THEN fallback.message
                ELSE IF entry = "generate_notification_safe" THEN PyStr(<<>>)
                ELSE PyNone,
             max_length |-> max_length]]
    /\ pc' = [pc EXCEPT ![r] = "get_config"]
    /\ UNCHANGED <<heap, history, sdk, request, inputs, output, collections, db, _CONFIG, response, placement_config, eligible_template_ids,
                   template, result, reads>>

\* placement_config = get_placement_config(placement_id)
GetPlacementConfig(r) ==
    /\ pc[r] = "get_config"
    /\ \E failed \in BOOLEAN :
        LET app == get_app_id(_CONFIG)
        IN  /\ placement_config' = [placement_config EXCEPT ![r] =
                    get_placement_config(Scoped(app), failed)]
            /\ reads' = [reads EXCEPT ![r] =
                    Append(@, Read("get_placement_config", app, ~failed))]
    /\ pc' = [pc EXCEPT ![r] = "filters"]
    /\ UNCHANGED <<heap, history, sdk, request, inputs, output, collections, db, _CONFIG, response, args, eligible_template_ids, template, result>>

\* eligible_template_ids = apply_template_filters(...) when the config has filters
ApplyFilters(r) ==
    /\ pc[r] = "filters"
    /\ LET cfg == placement_config[r]
           filters == IF cfg.isNone THEN <<>> ELSE cfg.templateFilters
       IN  IF \E i \in 1..Len(filters) : ~IsMapping(filters[i])
           THEN /\ Raise(r, "AttributeError")
                /\ UNCHANGED eligible_template_ids
           ELSE /\ eligible_template_ids' = [eligible_template_ids EXCEPT ![r] =
                        IF filters # <<>>
                        THEN apply_template_filters(filters, args[r].variables)
                        ELSE NoRestriction]
                /\ pc' = [pc EXCEPT ![r] = "select"]
                /\ UNCHANGED result
    /\ UNCHANGED <<heap, history, sdk, request, inputs, output, collections, db, _CONFIG, response, args, placement_config, template, reads>>

\* template = get_random_template(placement_id, variables, eligible_template_ids)
GetRandomTemplate(r) ==
    /\ pc[r] = "select"
    /\ \E fail \in {"none", "parent", "docs", "stream"} :
        LET app == get_app_id(_CONFIG)
            out == get_random_template(Scoped(app), args[r].variables,
                                       eligible_template_ids[r], fail)
        IN  /\ reads' = [reads EXCEPT ![r] =
                    Append(@, Read("get_random_template", app, ~out.failed))]
            /\ IF out.templates = {}
               THEN /\ template' = [template EXCEPT ![r] = NoTemplate]
                    /\ pc' = [pc EXCEPT ![r] = "fallback_config"]
               ELSE \E t \in out.templates :
                    /\ template' = [template EXCEPT ![r] = [isNone |-> FALSE, t |-> t]]
                    /\ pc' = [pc EXCEPT ![r] = "render"]
    /\ UNCHANGED <<heap, history, sdk, request, inputs, output, collections, db, _CONFIG, response, args, placement_config, eligible_template_ids, result>>

\* the attribution keys written after substitution
WithAttribution(data, placement_name, template_id, template_name) ==
    [k \in (DOMAIN data) \cup AttributionKeys |->
        CASE k = "copylab_placement_id" -> PyStr(PlacementId)
          [] k = "copylab_placement_name" -> PyStr(placement_name)
          [] k = "copylab_template_id" -> PyStr(template_id)
          [] k = "copylab_template_name" -> PyStr(template_name)
          [] OTHER -> data[k]]

\* mutant: the template's data is laid over the caller's
MergedData_TemplateWins(t, a) ==
    LET own == Get(t, "data", EmptyDict)
        template_data == IF own # EmptyDict THEN own
                         ELSE Get(t, "_placement_data", EmptyDict)
    IN  DictUpdate(OrEmptyDict(a.data), template_data)

\* merged_data: the template's own data, the placement's default data when
\* it has none, overlaid with the caller's data
MergedData(t, a) ==
    LET own == Get(t, "data", EmptyDict)
        template_data == IF own # EmptyDict THEN own
                         ELSE Get(t, "_placement_data", EmptyDict)
    IN  DictUpdate(template_data, OrEmptyDict(a.data))

\* mutant: attribution written into the template data before the caller's
\* data is overlaid and substituted
SelectedResult_AttributionFirst(t, a) ==
    LET defaults == Get(t, "_placement_defaults", EmptyDict)
        own == Get(t, "data", EmptyDict)
        template_data == IF own # EmptyDict THEN own
                         ELSE Get(t, "_placement_data", EmptyDict)
        merged_data == DictUpdate(
                           WithAttribution(template_data,
                                           Get(t, "_placement_name", PlacementId),
                                           Get(t, "id", UNKNOWN_ID),
                                           Get(t, "name", UNKNOWN_NAME)),
                           OrEmptyDict(a.data))
        processed == _process_notification_content(
                        Get(t, "title_template", <<>>),
                        Get(t, "body_template", <<>>),
                        merged_data, a.variables, defaults, a.max_length)
    IN  [kind |-> "returned",
         title |-> PyStr(processed.title),
         message |-> PyStr(processed.message),
         data |-> processed.data,
         template_used |-> TRUE,
         template_name |-> PyStr(Get(t, "name", UNKNOWN_NAME))]

\* the "if template:" branch up to its return
SelectedResult(t, a) ==
    LET defaults == Get(t, "_placement_defaults", EmptyDict)
        merged_data == MergedData(t, a)
        processed == _process_notification_content(
                        Get(t, "title_template", <<>>),
                        Get(t, "body_template", <<>>),
                        merged_data, a.variables, defaults, a.max_length)
    IN  [kind |-> "returned",
         title |-> PyStr(processed.title),
         message |-> PyStr(processed.message),
         data |-> WithAttribution(processed.data,
                                  Get(t, "_placement_name", PlacementId),
                                  Get(t, "id", UNKNOWN_ID),
                                  Get(t, "name", UNKNOWN_NAME)),
         template_used |-> TRUE,
         template_name |-> PyStr(Get(t, "name", UNKNOWN_NAME))]

RenderTemplate(r) ==
    /\ pc[r] = "render"
    /\ IF ~IsMapping(OrEmptyDict(args[r].data))
       THEN Raise(r, "ValueError")
       ELSE /\ result' = [result EXCEPT ![r] = SelectedResult(template[r].t, args[r])]
            /\ pc' = [pc EXCEPT ![r] = "done"]
    /\ UNCHANGED <<heap, history, sdk, request, inputs, output, collections, db, _CONFIG, response, args, placement_config, eligible_template_ids,
                   template, reads>>

\* the else branch: placement_config = get_placement_config(placement_id)
FallbackConfig(r) ==
    /\ pc[r] = "fallback_config"
    /\ \E failed \in BOOLEAN :
        LET app == get_app_id(_CONFIG)
        IN  /\ placement_config' = [placement_config EXCEPT ![r] =
                    get_placement_config(Scoped(app), failed)]
            /\ reads' = [reads EXCEPT ![r] =
                    Append(@, Read("fallback_config", app, ~failed))]
    /\ pc' = [pc EXCEPT ![r] = "fallback_render"]
    /\ UNCHANGED <<heap, history, sdk, request, inputs, output, collections, db, _CONFIG, response, args, eligible_template_ids, template, result>>

\* mutant: the fallback strings returned as passed, without substitution
FallbackResult_Unrendered(cfg, a) ==
    LET placement_name == IF cfg.isNone THEN PlacementId ELSE cfg.name
    IN  [kind |-> "returned",
         title |-> PyStr(OrEmptyStr(a.fallback_title)),
         message |-> PyStr(OrEmptyStr(a.fallback_message)),
         data |-> WithAttribution(OrEmptyDict(a.data), placement_name,
                                  FALLBACK_ID, FALLBACK_NAME),
         template_used |-> FALSE,
         template_name |-> PyNone]

\* the else branch from its defaults to its return
FallbackResult(cfg, a) ==
    LET defaults == IF cfg.isNone THEN EmptyDict ELSE cfg.defaults
        processed == _process_notification_content(
                        OrEmptyStr(a.fallback_title),
                        OrEmptyStr(a.fallback_message),
                        OrEmptyDict(a.data), a.variables,
                        defaults, a.max_length)
        placement_name == IF cfg.isNone THEN PlacementId ELSE cfg.name
    IN  [kind |-> "returned",
         title |-> PyStr(processed.title),
         message |-> PyStr(processed.message),
         data |-> WithAttribution(processed.data, placement_name,
                                  FALLBACK_ID, FALLBACK_NAME),
         template_used |-> FALSE,
         template_name |-> PyNone]

RenderFallback(r) ==
    /\ pc[r] = "fallback_render"
    /\ IF ~IsMapping(OrEmptyDict(args[r].data))
       THEN Raise(r, "AttributeError")
       ELSE /\ result' = [result EXCEPT ![r] = FallbackResult(placement_config[r], args[r])]
            /\ pc' = [pc EXCEPT ![r] = "done"]
    /\ UNCHANGED <<heap, history, sdk, request, inputs, output, collections, db, _CONFIG, response, args, placement_config, eligible_template_ids,
                   template, reads>>

(***************************************************************************)
(* Specification: one configured application, direct calls                 *)
(***************************************************************************)
NoArgs == [entry |-> "none", caller |-> "none"]

Idle ==
    /\ pc = [r \in Calls |-> "idle"]
    /\ args = [r \in Calls |-> NoArgs]
    /\ placement_config = [r \in Calls |-> NoConfig]
    /\ eligible_template_ids = [r \in Calls |-> NoRestriction]
    /\ template = [r \in Calls |-> NoTemplate]
    /\ result = [r \in Calls |-> NoResult]
    /\ reads = [r \in Calls |-> <<>>]
    /\ response = [r \in Calls |-> NoResponse]
    /\ collections = [app \in Apps |-> EmptyCollections]
    /\ request = [r \in Calls |-> NoRequest]
    /\ history = <<>>
    /\ heap = NoHeap
    /\ sdk = NoSdk
    /\ inputs = NoInputs
    /\ output = NoOutput

Init ==
    /\ \E store \in Stores : db = [app \in Apps |-> IF app = AppA THEN store ELSE EmptyStore]
    /\ _CONFIG = [api_key |-> PyNone, app_id |-> PyStr(AppA)]
    /\ Idle

Steps(r) ==
    \/ GetPlacementConfig(r)
    \/ ApplyFilters(r)
    \/ GetRandomTemplate(r)
    \/ RenderTemplate(r)
    \/ FallbackConfig(r)
    \/ RenderFallback(r)

Next ==
    \/ \E entry \in EntryPoints, variables \in VarSets, data \in DataArgs,
          fallback \in FallbackArgs, max_length \in MaxLengthArgs :
            Call(1, entry, variables, data, fallback, max_length)
    \/ Steps(1)

Spec == Init /\ [][Next]_vars

(***************************************************************************)
(* The generate_notification endpoint (api.py) and concurrent requests     *)
(***************************************************************************)
\* "cl_" + app_id + "_k": the API key stored under apps/{app_id}/api_keys
KeyOf(app) == KEY_PREFIX \o app \o <<"_", "k">>

\* mutant: a key of the right form is accepted without the store lookup
validate_api_key_Unchecked(api_key, lookup_fails) ==
    IF ~Truthy(api_key) THEN [outcome |-> "rejected"]
    ELSE IF ~MatchesAt(api_key.s, 1, KEY_PREFIX) THEN [outcome |-> "rejected"]
    ELSE LET parts == Split(api_key.s, "_")
         IN  IF Len(parts) < 3 THEN [outcome |-> "rejected"]
             ELSE IF lookup_fails THEN [outcome |-> "exception"]
             ELSE [outcome |-> "valid", app_id |-> parts[2]]

\* validate_api_key(request): the app id of a valid key, rejected otherwise;
\* lookup_fails: the read of the key document raises
validate_api_key(api_key, lookup_fails) ==
    IF ~Truthy(api_key) THEN [outcome |-> "rejected"]
    ELSE IF ~MatchesAt(api_key.s, 1, KEY_PREFIX) THEN [outcome |-> "rejected"]
    ELSE LET parts == Split(api_key.s, "_")
         IN  IF Len(parts) < 3 THEN [outcome |-> "rejected"]
             ELSE IF lookup_fails THEN [outcome |-> "exception"]
             ELSE IF api_key.s \notin Scoped(parts[2]).api_keys
                  THEN [outcome |-> "rejected"]
                  ELSE [outcome |-> "valid", app_id |-> parts[2]]

\* cors_response(data, status)
cors_response(data, status) == [status |-> status, body |-> data]

\* the store operations of validate_api_key: the key document is read only for
\* a key of the right form
KeyLookup(api_key, lookup_fails) ==
    IF ~Truthy(api_key) THEN <<>>
    ELSE IF ~MatchesAt(api_key.s, 1, KEY_PREFIX) THEN <<>>
    ELSE LET parts == Split(api_key.s, "_")
         IN  IF Len(parts) < 3 THEN <<>>
             ELSE <<Read("api_keys", parts[2], ~lookup_fails)>>

\* the request as the handler receives it
Request(endpoint, method, api_key, body_ok, body) ==
    [endpoint |-> endpoint, method |-> method, api_key |-> api_key,
     body_ok |-> body_ok, body |-> body]

\* the handler up to the call of gen_notif: method check, API key, body,
\* configure(app_id=app_id).  body_ok = FALSE: the body is not a JSON object.
ApiGenerateNotification(r, method, api_key, lookup_fails, body_ok, body) ==
    /\ pc[r] = "idle"
    /\ LET key == validate_api_key(api_key, lookup_fails)
           early ==
             CASE method = "OPTIONS" -> cors_response(EmptyDict, 200)
               [] method # "POST" ->
                    cors_response([error |-> "Method not allowed"], 405)
               [] key.outcome = "exception" -> [status |-> -1, body |-> "uncaught"]
               [] key.outcome = "rejected" ->
                    cors_response([error |-> "Invalid or missing API key"], 401)
               [] ~body_ok -> cors_response([error |-> "AttributeError"], 500)
               [] ~Truthy(body.placement_id) ->
                    cors_response([error |-> "placement_id is required"], 400)
               [] OTHER -> NoResponse
       IN  IF early # NoResponse
           THEN /\ response' = [response EXCEPT ![r] = early]
                /\ pc' = [pc EXCEPT ![r] = "responded"]
                /\ UNCHANGED <<_CONFIG, args>>
           ELSE /\ _CONFIG' = configure(_CONFIG, PyNone, PyStr(key.app_id))
                /\ args' = [args EXCEPT ![r] =
                        [entry |-> "generate_notification",
                         caller |-> "http",
                         variables |-> body.variables,
                         data |-> body.data,
                         fallback_title |-> body.fallback_title,
                         fallback_message |-> body.fallback_message,
                         max_length |-> PyInt(DefaultMaxLength)]]
                /\ pc' = [pc EXCEPT ![r] = "get_config"]
                /\ UNCHANGED response
    /\ request' = [request EXCEPT ![r] =
            Request("generate_notification", method, api_key, body_ok, body)]
    /\ reads' = [reads EXCEPT ![r] =
            IF method = "POST" THEN KeyLookup(api_key, lookup_fails) ELSE <<>>]
    /\ UNCHANGED <<heap, history, sdk, inputs, output, collections, db, placement_config, eligible_template_ids, template, result>>

\* the handler after gen_notif: cors_response(result), or the except clause
ApiRespond(r) ==
    /\ pc[r] = "done"
    /\ args[r].caller = "http"
    /\ response' = [response EXCEPT ![r] =
            IF result[r].kind = "returned"
            THEN cors_response([k \in (DOMAIN result[r]) \ {"kind"} |-> result[r][k]], 200)
            ELSE cors_response([error |-> result[r].error], 500)]
    /\ pc' = [pc EXCEPT ![r] = "responded"]
    /\ UNCHANGED <<heap, history, sdk, request, inputs, output, collections, db, _CONFIG, args, placement_config, eligible_template_ids,
                   template, result, reads>>

\* the app each of the two concurrent requests is authenticated for
AppOf(r) == IF r = 1 THEN AppA ELSE AppB

\* the tenants' documents: different placement names and templates
ConcStoreA ==
    [exists |-> TRUE,
     parent |-> [name |-> <<"P">>, previewDefaults |-> PreviewDefaults],
     templates |-> (IdOf(1) :>
                      [isActive |-> PyBool(TRUE), name |-> NameOf(IdOf(1)), weight |-> 1,
                       title_template |-> <<"{", "x", "}">>,
                       body_template |-> <<"a">>]),
     api_keys |-> {KeyOf(AppA)}]

ConcStoreB ==
    [exists |-> TRUE,
     parent |-> [name |-> <<"Q">>],
     templates |-> (IdOf(1) :>
                      [isActive |-> PyBool(TRUE), name |-> NameOf(IdOf(1)), weight |-> 1,
                       title_template |-> <<"b">>,
                       body_template |-> <<"b">>]),
     api_keys |-> {KeyOf(AppB)}]

\* the JSON bodies of the concurrent requests
ConcBodies ==
    {[placement_id |-> PyStr(PlacementId), variables |-> v, data |-> EmptyDict,
      fallback_title |-> PyNone, fallback_message |-> PyNone] : v \in VarSets}

InitConc ==
    /\ db = [app \in Apps |-> IF app = AppA THEN ConcStoreA ELSE ConcStoreB]
    /\ _CONFIG = [api_key |-> PyNone, app_id |-> PyNone]
    /\ Idle

NextConc ==
    \E r \in Calls :
        \/ \E body \in ConcBodies :
              ApiGenerateNotification(r, "POST", PyStr(KeyOf(AppOf(r))), FALSE, TRUE, body)
        \/ Steps(r)
        \/ ApiRespond(r)

SpecConc == InitConc /\ [][NextConc]_vars

\* the results of generate_notification when every read sees the documents
\* of store; f1, f2: the first, the second read of the config fails; fail: the
\* read of get_random_template that raises
OutcomesWith(store, a, f1, f2, fail) ==
    LET cfg == get_placement_config(store, f1)
        filters == IF cfg.isNone THEN <<>> ELSE cfg.templateFilters
        e == IF filters # <<>> THEN apply_template_filters(filters, a.variables)
             ELSE NoRestriction
        out == get_random_template(store, a.variables, e, fail)
    IN  IF \E i \in 1..Len(filters) : ~IsMapping(filters[i])
        THEN {ExceptionResult(a, "AttributeError")}
        ELSE IF out.templates # {}
        THEN IF ~IsMapping(OrEmptyDict(a.data))
             THEN {ExceptionResult(a, "ValueError")}
             ELSE {SelectedResult(t, a) : t \in out.templates}
        ELSE IF ~IsMapping(OrEmptyDict(a.data))
             THEN {ExceptionResult(a, "AttributeError")}
             ELSE {FallbackResult(get_placement_config(store, f2), a)}

\* generate_notification as a function of the documents it reads and its
\* arguments: every result the call can produce when nothing else runs
\* (over the reads that may fail and the random draw)
GenerateOutcomes(store, a) ==
    UNION {OutcomesWith(store, a, f1, f2, fail) :
             f1 \in BOOLEAN, f2 \in BOOLEAN, fail \in {"none", "parent", "docs", "stream"}}

(***************************************************************************)
(* Specification of filter resolution: the call stands before "Apply       *)
(* template filters" with the config of a placement whose templateFilters  *)
(* is a list of at most MaxRules rules of at most MaxCases cases, at most  *)
(* one rule of a list having several cases                                 *)
(***************************************************************************)
\* the cases a rule is built from: two with the same value and different
\* ids, one whose ids are empty
CaseOptions ==
    {[value |-> PyInt(1), templateIds |-> <<IdOf(1)>>],
     [value |-> PyInt(1), templateIds |-> <<IdOf(2)>>],
     [value |-> PyStr(<<"a">>), templateIds |-> <<>>]}

DefaultIdOptions == {<<>>, <<IdOf(1), IdOf(2)>>}

\* the sequences over S of length at most n
RECURSIVE SeqsOfLen(_, _)
SeqsOfLen(S, k) ==
    IF k = 0 THEN {<<>>} ELSE {Append(s, e) : s \in SeqsOfLen(S, k - 1), e \in S}

SeqsUpTo(S, n) == UNION {SeqsOfLen(S, k) : k \in 0..n}

FilterRules ==
    {[inputVariable |-> x, cases |-> c, defaultTemplateIds |-> d] :
        c \in SeqsUpTo(CaseOptions, MaxCases), d \in DefaultIdOptions}

\* the rules with at most one case, and those with several
SingleCaseRules == {rule \in FilterRules : Len(rule.cases) <= 1}

SeveralCaseRules == FilterRules \ SingleCaseRules

\* the filter lists made from a list f of single-case rules: f itself and
\* f with one rule replaced by a rule with several cases
FilterInputsFrom(f) ==
    {f} \cup {[f EXCEPT ![i] = rule] : i \in DOMAIN f, rule \in SeveralCaseRules}

\* the runtime values of x: absent, "1" (the str() of the case value 1), "a"
FilterVarSets == {EmptyDict, (x :> PyStr(<<"1">>)), (x :> PyStr(<<"a">>))}

\* a placement with these filter rules whose templates are all active,
\* unconditional and of equal weight
FilterStore(filters) ==
    [exists |-> TRUE,
     parent |-> [templateFilters |-> filters],
     templates |-> [id \in TemplateIds |->
                      [isActive |-> PyBool(TRUE), name |-> NameOf(id), weight |-> 1,
                       title_template |-> <<"t">>, body_template |-> <<"b">>]],
     api_keys |-> {}]

InitFilters ==
    /\ \E f \in SeqsUpTo(SingleCaseRules, MaxRules), variables \in FilterVarSets :
       \E filters \in FilterInputsFrom(f) :
        /\ db = [app \in Apps |-> IF app = AppA THEN FilterStore(filters) ELSE EmptyStore]
        /\ args = [r \in Calls |->
                     IF r = 1
                     THEN [entry |-> "generate_notification", caller |-> "direct",
                           variables |-> variables, data |-> PyNone, fallback_title |-> PyNone,
                           fallback_message |-> PyNone,
                           max_length |-> PyInt(DefaultMaxLength)]
                     ELSE NoArgs]
        /\ placement_config = [r \in Calls |->
                     IF r = 1 THEN get_placement_config(FilterStore(filters), FALSE)
                     ELSE NoConfig]
    /\ _CONFIG = [api_key |-> PyNone, app_id |-> PyStr(AppA)]
    /\ pc = [r \in Calls |-> IF r = 1 THEN "filters" ELSE "idle"]
    /\ reads = [r \in Calls |->
                  IF r = 1 THEN <<Read("get_placement_config", AppA, TRUE)>> ELSE <<>>]
    /\ eligible_template_ids = [r \in Calls |-> NoRestriction]
    /\ template = [r \in Calls |-> NoTemplate]
    /\ result = [r \in Calls |-> NoResult]
    /\ response = [r \in Calls |-> NoResponse]
    /\ collections = [app \in Apps |-> EmptyCollections]
    /\ request = [r \in Calls |-> NoRequest]
    /\ history = <<>>
    /\ heap = NoHeap
    /\ sdk = NoSdk
    /\ inputs = NoInputs
    /\ output = NoOutput

NextFilters ==
    \/ ApplyFilters(1)
    \/ GetRandomTemplate(1)

SpecFilters == InitFilters /\ [][NextFilters]_vars

(***************************************************************************)
(* Specification of the pure functions: one call of one function on        *)
(* arguments drawn from the sets below                                     *)
(***************************************************************************)
y == <<"y">>

\* the operator strings of a condition; "matches" is not an operator
Operators ==
    {"equals", "not_equals", "contains", "greater_than", "less_than", "exists",
     "matches"}

\* the values a condition compares with and a variable holds
ConditionValues ==
    {PyStr(<<>>), PyStr(<<"a">>), PyStr(<<"1", "0">>), PyStr(<<"9">>),
     PyStr(<<"2", ".", "5">>), PyInt(10), PyNone}

\* condition records, also without their "value", "operator" or "variable"
Conditions ==
    {[variable |-> x, operator |-> op, value |-> v] :
        op \in Operators, v \in ConditionValues}
    \cup {[variable |-> x, operator |-> op] : op \in Operators}
    \cup {[variable |-> x, value |-> v] : v \in ConditionValues}
    \cup {[operator |-> op, value |-> PyStr(<<"a">>)] : op \in Operators}

\* variable sets: x absent, x with each value, only another variable
ConditionVarSets ==
    {EmptyDict, (y :> PyStr(<<"a">>))} \cup {(x :> v) : v \in ConditionValues}

EvaluateInputs ==
    {[fn |-> "evaluate_condition", condition |-> c, variables |-> v] :
        c \in Conditions, v \in ConditionVarSets}

\* everything but the call of the pure function stays as it is
NoEngineStep ==
    UNCHANGED <<db, _CONFIG, pc, args, placement_config, eligible_template_ids,
                template, result, reads, request, response, collections, inputs,
                history, sdk, heap>>

\* evaluate_condition(condition, variables)
EvaluateCondition ==
    /\ inputs.fn = "evaluate_condition"
    /\ output = NoOutput
    /\ output' = evaluate_condition(inputs.condition, inputs.variables)
    /\ NoEngineStep

\* the conditions of a candidate template: none, an empty list, lists of
\* one and of two conditions
ConditionLists ==
    {<<>>,
     <<[variable |-> x, operator |-> "equals", value |-> PyStr(<<"a">>)]>>,
     <<[variable |-> x, operator |-> "equals", value |-> PyStr(<<"a">>)],
       [variable |-> x, operator |-> "exists"]>>,
     <<[variable |-> x, operator |-> "exists"],
       [variable |-> x, operator |-> "equals", value |-> PyStr(<<"b">>)]>>}

\* the candidate with id i: without a "conditions" field or with one
Candidates(i) ==
    {[id |-> IdOf(i), name |-> NameOf(IdOf(i)), weight |-> 1]}
    \cup {[id |-> IdOf(i), name |-> NameOf(IdOf(i)), weight |-> 1, conditions |-> c] :
                c \in ConditionLists}

\* the lists of k candidates, the i-th one with id i
RECURSIVE CandidateLists(_)
CandidateLists(k) ==
    IF k = 0 THEN {<<>>}
    ELSE {Append(l, t) : l \in CandidateLists(k - 1), t \in Candidates(k)}

ConditionFilterInputs ==
    {[fn |-> "_filter_templates_by_conditions", templates |-> l, variables |-> v] :
        l \in UNION {CandidateLists(k) : k \in 0..MaxCandidates},
        v \in {EmptyDict, (x :> PyStr(<<"a">>)), (x :> PyStr(<<"b">>))}}

\* _filter_templates_by_conditions(templates, variables)
FilterTemplatesByConditions ==
    /\ inputs.fn = "_filter_templates_by_conditions"
    /\ output = NoOutput
    /\ output' = Value(_filter_templates_by_conditions(inputs.templates, inputs.variables))
    /\ NoEngineStep

\* template strings: one placeholder, one placeholder twice, two
\* placeholders, none, the empty string
TemplateStrings ==
    {<<"{", "x", "}">>,
     <<"a", "{", "x", "}", "b", "{", "x", "}">>,
     <<"{", "y", "}", "a", "{", "x", "}">>,
     <<"{", "x", "}", "{", "y", "}">>,
     <<"a">>,
     <<>>}

\* the mappings that hold a subset of the entries of d
SubMappings(d) == {[k \in K |-> d[k]] : K \in SUBSET DOMAIN d}

\* variables for x and y: a string, an integer, a string that is itself a
\* placeholder
RenderVarSets ==
    {vx @@ vy :
        vx \in {EmptyDict, (x :> PyStr(<<"v">>)), (x :> PyInt(7)),
                (x :> PyStr(<<"{", "y", "}">>))},
        vy \in {EmptyDict, (y :> PyStr(<<"w">>))}}

\* defaults under the brace-wrapped key of x, the bare key of x and the
\* bare key of y
RenderDefaults ==
    SubMappings((<<"{", "x", "}">> :> PyStr(<<"d">>)) @@ (x :> PyStr(<<"e">>))
                    @@ (y :> PyStr(<<"f">>)))

ApplyTemplateInputs ==
    {[fn |-> "apply_template", template_string |-> t, variables |-> v, defaults |-> d] :
        t \in TemplateStrings, v \in RenderVarSets, d \in RenderDefaults}

\* apply_template(template_string, variables, defaults)
ApplyTemplate ==
    /\ inputs.fn = "apply_template"
    /\ output = NoOutput
    /\ output' = Value(apply_template(inputs.template_string, inputs.variables,
                                      inputs.defaults))
    /\ NoEngineStep

\* the max_length arguments: omitted, 0 .. ShortMaxLength, the default
MaxLengths ==
    {PyNone, PyInt(DefaultMaxLength)} \cup {PyInt(n) : n \in 0..ShortMaxLength}

\* titles, messages and data longer and shorter than the short limits
ProcessInputs ==
    {[fn |-> "_process_notification_content", title |-> t, message |-> m, data |-> d,
      variables |-> v, defaults |-> EmptyDict, max_length |-> l] :
        t \in {<<"a", "b", "c", "d", "e", "f">>, <<"{", "x", "}">>},
        m \in {<<>>, <<"a", "b", "c">>, <<"a", "b", "c", "d", "e", "f">>,
               <<"{", "x", "}", "c", "d", "e", "f">>},
        d \in {EmptyDict,
               ("k" :> PyStr(<<"a", "b", "c", "d", "e", "f", "{", "x", "}">>))
                   @@ ("n" :> PyInt(7))},
        v \in {EmptyDict, (x :> PyStr(<<"a", "b">>))},
        l \in MaxLengths}

\* _process_notification_content(title, message, data, variables, defaults, max_length)
ProcessNotificationContent ==
    /\ inputs.fn = "_process_notification_content"
    /\ output = NoOutput
    /\ output' = Value(_process_notification_content(
                          inputs.title, inputs.message, inputs.data, inputs.variables,
                          inputs.defaults, inputs.max_length))
    /\ NoEngineStep

\* the candidate with id i and each weight: none, 0, 2, 10
Weighted(i) ==
    {[id |-> IdOf(i), name |-> NameOf(IdOf(i))]}
    \cup {[id |-> IdOf(i), name |-> NameOf(IdOf(i)), weight |-> w] : w \in {0, 2, 10}}

\* the lists of k weighted candidates, the i-th one with id i
RECURSIVE WeightedLists(_)
WeightedLists(k) ==
    IF k = 0 THEN {<<>>}
    ELSE {Append(l, t) : l \in WeightedLists(k - 1), t \in Weighted(k)}

WeightedChoiceInputs ==
    {[fn |-> "_weighted_random_choice", templates |-> l] :
        l \in UNION {WeightedLists(k) : k \in 0..MaxCandidates}}

\* _weighted_random_choice(templates): None for no possible outcome, else
\* any of the templates the draw can give
WeightedRandomChoice ==
    /\ inputs.fn = "_weighted_random_choice"
    /\ output = NoOutput
    /\ LET outcomes == _weighted_random_choice(inputs.templates)
       IN  IF outcomes = {} THEN output' = Value(NoTemplate)
           ELSE \E t \in outcomes : output' = Value(t)
    /\ NoEngineStep

FunctionInputs ==
    EvaluateInputs \cup ConditionFilterInputs \cup ApplyTemplateInputs
        \cup ProcessInputs \cup WeightedChoiceInputs

InitFunctions ==
    /\ inputs \in FunctionInputs
    /\ output = NoOutput
    /\ db = [app \in Apps |-> EmptyStore]
    /\ _CONFIG = [api_key |-> PyNone, app_id |-> PyStr(AppA)]
    /\ pc = [r \in Calls |-> "idle"]
    /\ args = [r \in Calls |-> NoArgs]
    /\ placement_config = [r \in Calls |-> NoConfig]
    /\ eligible_template_ids = [r \in Calls |-> NoRestriction]
    /\ template = [r \in Calls |-> NoTemplate]
    /\ result = [r \in Calls |-> NoResult]
    /\ reads = [r \in Calls |-> <<>>]
    /\ response = [r \in Calls |-> NoResponse]
    /\ collections = [app \in Apps |-> EmptyCollections]
    /\ request = [r \in Calls |-> NoRequest]
    /\ history = <<>>
    /\ heap = NoHeap
    /\ sdk = NoSdk

NextFunctions ==
    \/ EvaluateCondition
    \/ FilterTemplatesByConditions
    \/ ApplyTemplate
    \/ ProcessNotificationContent
    \/ WeightedRandomChoice

SpecFunctions == InitFunctions /\ [][NextFunctions]_vars

(***************************************************************************)
(* Properties of generate_notification (specification Spec)                *)
(***************************************************************************)
\* the documents of the configured application
TheStore == db[AppA]

Done(r) == pc[r] = "done"

Returned(r) == Done(r) /\ result[r].kind = "returned"

\* the call returned from the "if template:" branch
Selected(r) == Returned(r) /\ result[r].template_used

\* the record comes from the except clause of generate_notification_safe
CaughtError(r) == Returned(r) /\ "error" \in DOMAIN result[r]

\* the call took the else branch of generate_notification
InFallback(r) == \E i \in 1..Len(reads[r]) : reads[r][i].op = "fallback_config"

\* get_random_template has returned
AfterSelect(r) == \E i \in 1..Len(reads[r]) : reads[r][i].op = "get_random_template"

\* the data argument is a mapping (or omitted)
MappingData(r) == IsMapping(OrEmptyDict(args[r].data))

\* C1: when a template is selected, the four attribution keys of the returned
\* data carry the selected template's id and name, the requested placement id
\* and the placement's name (the placement id when the document has no name),
\* whatever the caller's data, the template's data, the placement's default
\* data and the variables contain under those keys.
C1_AttributionNotOverridden ==
    \A r \in Calls :
        Selected(r) =>
            /\ ~template[r].isNone
            /\ LET id == template[r].t.id
                   d == result[r].data
               IN  /\ id \in DOMAIN TheStore.templates
                   /\ d["copylab_template_id"] = PyStr(id)
                   /\ d["copylab_template_name"] = PyStr(TheStore.templates[id].name)
                   /\ d["copylab_placement_id"] = PyStr(PlacementId)
                   /\ d["copylab_placement_name"]
                        = PyStr(Get(TheStore.parent, "name", PlacementId))

\* C1 witness: a template with its own data was selected for a caller whose
\* data and variables carry attribution keys
C1_Witness ==
    \E r \in Calls :
        /\ Selected(r)
        /\ MappingData(r)
        /\ "copylab_template_id" \in DOMAIN OrEmptyDict(args[r].data)
        /\ "copylab_template_id" \in DOMAIN Get(template[r].t, "data", EmptyDict)
        /\ COPYLAB_TEMPLATE_ID_VAR \in DOMAIN args[r].variables

\* the templates of the store that are active, pass their conditions and lie
\* within the restriction of the placement's filter rules
Survivors(store, variables) ==
    IF ~store.exists THEN {}
    ELSE LET filters == Get(store.parent, "templateFilters", <<>>)
             e == IF filters = <<>> THEN NoRestriction
                  ELSE apply_template_filters(filters, variables)
         IN  {id \in DOMAIN store.templates :
                /\ Get(store.templates[id], "isActive", PyNone) = PyBool(TRUE)
                /\ e.isNone \/ id \in e.ids
                /\ AllMatch(Get(store.templates[id], "conditions", <<>>), variables)}

WellFormedFilters(store) ==
    \A i \in 1..Len(Get(store.parent, "templateFilters", <<>>)) :
        IsMapping(store.parent.templateFilters[i])

\* the placement defaults the else branch works with: those of the document
\* its config read found, none when the read found nothing
FallbackDefaults(r) ==
    IF reads[r][Len(reads[r])].ok /\ TheStore.exists
    THEN Get(TheStore.parent, "previewDefaults", EmptyDict)
    ELSE EmptyDict

\* C2: whenever no candidate template survives (the else branch is taken; in
\* particular when the placement is absent or no template of the store is
\* active, within the filter restriction and passing its conditions), the
\* call returns template_used = false, template_name = null, title and
\* message equal to the fallback strings ('' when omitted) rendered - by
\* _process_notification_content, so the message with its max_length
\* truncation - against the caller's variables and the placement defaults,
\* and data with copylab_template_id = "fallback" and
\* copylab_template_name = "Fallback".
C2_FallbackResult ==
    \A r \in Calls :
        /\ (Done(r) /\ MappingData(r) /\ WellFormedFilters(TheStore)
              /\ reads[r][1].ok /\ Survivors(TheStore, args[r].variables) = {})
                => InFallback(r)
        /\ (Done(r) /\ MappingData(r) /\ InFallback(r)) =>
            /\ result[r].kind = "returned"
            /\ result[r].template_used = FALSE
            /\ result[r].template_name = PyNone
            /\ "error" \notin DOMAIN result[r]
            /\ result[r].title =
                 PyStr(apply_template(OrEmptyStr(args[r].fallback_title),
                                      args[r].variables, FallbackDefaults(r)))
            /\ result[r].message =
                 PyStr(Truncate(apply_template(OrEmptyStr(args[r].fallback_message),
                                               args[r].variables, FallbackDefaults(r)),
                                args[r].max_length))
            /\ result[r].data["copylab_template_id"] = PyStr(FALLBACK_ID)
            /\ result[r].data["copylab_template_name"] = PyStr(FALLBACK_NAME)

\* C2 witness: a fallback whose title placeholder was filled from the
\* placement defaults, although the store holds an active template (the
\* filter restriction or the conditions left none)
C2_Witness ==
    \E r \in Calls :
        /\ Done(r) /\ InFallback(r) /\ MappingData(r)
        /\ \A i \in 1..Len(reads[r]) : reads[r][i].ok
        /\ args[r].fallback_title = PyStr(<<"{", "x", "}", "!">>)
        /\ result[r].title = PyStr(<<"D", "!">>)
        /\ \E id \in DOMAIN TheStore.templates :
                Get(TheStore.templates[id], "isActive", PyNone) = PyBool(TRUE)

\* C3: a call of generate_notification_safe always ends by returning a
\* record, never by raising.
C3_SafeNeverRaises ==
    \A r \in Calls :
        (Done(r) /\ args[r].entry = "generate_notification_safe")
            => result[r].kind = "returned"

\* C3 witness: a failure inside the pipeline was caught
C3_Witness ==
    \E r \in Calls :
        /\ CaughtError(r)
        /\ args[r].entry = "generate_notification_safe"

\* C4 as stated: the record returned for a caught failure is the record of
\* the fallback branch for the same inputs plus an error field.
C4_Original ==
    \A r \in Calls :
        CaughtError(r) =>
            /\ MappingData(r)
            /\ \E failed \in BOOLEAN :
                LET f == FallbackResult(get_placement_config(TheStore, failed), args[r])
                IN  /\ result[r].title = f.title
                    /\ result[r].message = f.message
                    /\ result[r].data = f.data
                    /\ result[r].template_used = f.template_used
                    /\ result[r].template_name = f.template_name

\* C4 amended: the record returned for a caught failure has template_used =
\* false, template_name = null, an error field, title and message equal to
\* the fallback arguments as passed (not rendered against the variables) and
\* data equal to the caller's data as passed ({} when omitted): no
\* attribution key is added.
C4_ErrorRecord ==
    \A r \in Calls :
        CaughtError(r) =>
            /\ result[r].template_used = FALSE
            /\ result[r].template_name = PyNone
            /\ result[r].title = args[r].fallback_title
            /\ result[r].message = args[r].fallback_message
            /\ result[r].data = OrEmptyDict(args[r].data)

\* C4 witness: a failure was caught for a call whose fallback title has a
\* placeholder the variables could fill and whose data is a mapping
C4_Witness ==
    \E r \in Calls :
        /\ CaughtError(r)
        /\ MappingData(r)
        /\ args[r].fallback_title = PyStr(<<"{", "x", "}", "!">>)
        /\ x \in DOMAIN args[r].variables

\* C5 as stated: when a store read of steps 1-4 failed, the call does not
\* raise and returns the fallback result.
C5_Original ==
    \A r \in Calls :
        (/\ Done(r)
         /\ MappingData(r)
         /\ \E i \in 1..Len(reads[r]) :
                /\ reads[r][i].op \in {"get_placement_config", "get_random_template"}
                /\ ~reads[r][i].ok)
            => /\ result[r].kind = "returned"
               /\ result[r].template_used = FALSE
               /\ result[r].data["copylab_template_id"] = PyStr(FALLBACK_ID)

\* C7: a template returned by get_random_template, and so a template reported
\* with template_used = true, has isActive equal to true in its document.
C7_OnlyActiveSelected ==
    \A r \in Calls :
        /\ Selected(r) => ~template[r].isNone
        /\ ~template[r].isNone =>
            LET id == template[r].t.id
            IN  /\ id \in DOMAIN TheStore.templates
                /\ "isActive" \in DOMAIN TheStore.templates[id]
                /\ TheStore.templates[id].isActive = PyBool(TRUE)

\* C7 witness: a template was selected from a store that also holds a
\* document whose isActive is truthy but not true, and one without isActive
C7_Witness ==
    \E r \in Calls :
        /\ ~template[r].isNone
        /\ \E id \in DOMAIN TheStore.templates :
                Get(TheStore.templates[id], "isActive", PyNone) \in {PyInt(1), PyNone}

\* C8: when filter resolution produced an eligible-id set, a selected
\* template has its id in the set, and when no active template has its id in
\* the set (the empty set included) no template is selected.
C8_EligibleSetRespected ==
    \A r \in Calls :
        (AfterSelect(r) /\ ~eligible_template_ids[r].isNone) =>
            /\ ~template[r].isNone => template[r].t.id \in eligible_template_ids[r].ids
            /\ {id \in DOMAIN TheStore.templates :
                    /\ Get(TheStore.templates[id], "isActive", PyNone) = PyBool(TRUE)
                    /\ id \in eligible_template_ids[r].ids} = {}
                 => /\ template[r].isNone
                    /\ pc[r] \in {"fallback_config", "fallback_render", "done"}
                    /\ Returned(r) => ~result[r].template_used

\* C8 witness: the eligible set is empty, the store holds an active template
\* with no conditions, all reads succeeded and the call fell back
C8_Witness ==
    \E r \in Calls :
        /\ Done(r)
        /\ eligible_template_ids[r] = Restricted({})
        /\ \A i \in 1..Len(reads[r]) : reads[r][i].ok
        /\ \E id \in DOMAIN TheStore.templates :
                /\ Get(TheStore.templates[id], "isActive", PyNone) = PyBool(TRUE)
                /\ "conditions" \notin DOMAIN TheStore.templates[id]
        /\ InFallback(r)

(***************************************************************************)
(* Properties of apply_template_filters (specification SpecFilters)        *)
(***************************************************************************)
\* apply_template_filters has returned for call r
FiltersApplied(r) == pc[r] \in {"select", "render", "fallback_config"}

\* the cases of a rule whose str(value) equals str() of the runtime value of
\* the rule's inputVariable ('' when the variable is absent)
MatchingCases(rule, variables) ==
    {j \in 1..Len(rule.cases) :
        Str(rule.cases[j].value) = Str(Get(variables, rule.inputVariable, PyStr(<<>>)))}

\* the id list a rule contributes: that of its first matching case, its
\* defaultTemplateIds when no case matches
FirstMatchIds(rule, variables) ==
    LET M == MatchingCases(rule, variables)
    IN  IF M = {} THEN rule.defaultTemplateIds
        ELSE rule.cases[CHOOSE j \in M : \A k \in M : j <= k].templateIds

\* C9: apply_template_filters returns None exactly when the filter list is
\* empty or no rule contributes an id; contributing rules with an empty
\* intersection give an empty list, not None, and selection over that empty
\* list returns no template.
C9_NoneSentinel ==
    \A r \in Calls :
        FiltersApplied(r) =>
            LET filters == placement_config[r].templateFilters
                e == eligible_template_ids[r]
                contributing == {i \in 1..Len(filters) :
                                    FirstMatchIds(filters[i], args[r].variables) # <<>>}
            IN  /\ e.isNone <=> (filters = <<>> \/ contributing = {})
                /\ (contributing # {}
                      /\ \A i \in contributing :
                            \A id \in Range(FirstMatchIds(filters[i], args[r].variables)) :
                                \E j \in contributing :
                                    id \notin Range(FirstMatchIds(filters[j],
                                                                  args[r].variables)))
                     => e = Restricted({})
                /\ (e = Restricted({}) /\ AfterSelect(r)) => template[r].isNone

\* C9 witness: two rules contributed disjoint id lists, the result is the
\* empty list and the selection over it, with every read succeeding and
\* every template active, returned no template
C9_Witness ==
    \E r \in Calls :
        /\ FiltersApplied(r) /\ AfterSelect(r)
        /\ reads[r][Len(reads[r])].ok
        /\ eligible_template_ids[r] = Restricted({})
        /\ template[r].isNone

\* C10: every rule contributes the templateIds of its first case whose
\* stringified value equals the stringified runtime value, also when a later
\* case has the same value, and its defaultTemplateIds only when no case
\* matches: the result lies within every non-empty contribution, and for a
\* single rule it is exactly that contribution.
C10_FirstMatchWins ==
    \A r \in Calls :
        FiltersApplied(r) =>
            LET filters == placement_config[r].templateFilters
                e == eligible_template_ids[r]
            IN  /\ \A i \in 1..Len(filters) :
                    LET ids == FirstMatchIds(filters[i], args[r].variables)
                    IN  ids # <<>> => (~e.isNone /\ e.ids \subseteq Range(ids))
                /\ Len(filters) = 1 =>
                    LET ids == FirstMatchIds(filters[1], args[r].variables)
                    IN  e = IF ids = <<>> THEN NoRestriction ELSE Restricted(Range(ids))

\* C10 witness: a single rule whose two cases both match the runtime value
\* "1" through str(1), with different ids; the first one's ids came out
C10_Witness ==
    \E r \in Calls :
        /\ FiltersApplied(r)
        /\ LET filters == placement_config[r].templateFilters
           IN  /\ Len(filters) = 1
               /\ Len(filters[1].cases) = 2
               /\ MatchingCases(filters[1], args[r].variables) = {1, 2}
               /\ filters[1].cases[1].templateIds = <<IdOf(1)>>
               /\ filters[1].cases[2].templateIds = <<IdOf(2)>>
               /\ Get(args[r].variables, x, PyNone) = PyStr(<<"1">>)
        /\ eligible_template_ids[r] = Restricted({IdOf(1)})

(***************************************************************************)
(* Properties of concurrent requests (specification SpecConc)              *)
(***************************************************************************)
\* C6 as stated: with two requests for different apps interleaved, every
\* store read of a request is scoped to the app the request is authenticated
\* for, and what the request gets is a result it could have got running
\* alone against its own app's documents.
C6_Original ==
    \A r \in Calls :
        /\ \A i \in 1..Len(reads[r]) : reads[r][i].app = AppOf(r)
        /\ (pc[r] \in {"done", "responded"} /\ args[r].caller = "http")
              => result[r] \in GenerateOutcomes(db[AppOf(r)], args[r])

\* sanity of GenerateOutcomes: a direct call that runs alone (specification
\* Spec) ends with one of these results
AloneMatchesOutcomes ==
    \A r \in Calls : Done(r) => result[r] \in GenerateOutcomes(TheStore, args[r])

(***************************************************************************)
(* Properties of evaluate_condition (specification SpecFunctions)          *)
(***************************************************************************)
\* evaluate_condition has been called and has finished
Evaluated == inputs.fn = "evaluate_condition" /\ output # NoOutput

\* the variable a condition names ('' when it names none) and its operator
NamedVariable == Get(inputs.condition, "variable", <<>>)

OperatorOf == Get(inputs.condition, "operator", "equals")

\* C12: evaluate_condition is total: for every condition record (any
\* operator, known or not, any value) and every variable set it returns a
\* boolean and never raises, also for greater_than / less_than on operands
\* that are not numbers.
C12_EvaluateTotal ==
    Evaluated => (output.kind = "returned" /\ output.value \in BOOLEAN)

\* C12 witness: greater_than compared "a" with "10", float() could not
\* convert, and the call returned the string comparison
C12_Witness ==
    /\ Evaluated
    /\ OperatorOf = "greater_than"
    /\ inputs.variables = (x :> PyStr(<<"a">>))
    /\ Get(inputs.condition, "value", PyNone) = PyStr(<<"1", "0">>)
    /\ output = Value(TRUE)

\* C13 as stated: exists is true exactly when the variable is present in
\* the variable set and its value is not the empty string.
C13_Original ==
    (Evaluated /\ OperatorOf = "exists")
        => (output.value <=> (/\ NamedVariable \in DOMAIN inputs.variables
                              /\ inputs.variables[NamedVariable] # PyStr(<<>>)))

\* C13: exists is true exactly when the variable is present with a value
\* that is neither None nor the empty string, whatever the condition's
\* value field holds.
C13_ExistsOperator ==
    (Evaluated /\ OperatorOf = "exists")
        => output = Value(/\ NamedVariable \in DOMAIN inputs.variables
                          /\ inputs.variables[NamedVariable] \notin {PyNone, PyStr(<<>>)})

\* C13 witness: exists on a variable holding "a" with a condition value
\* "10" returned true
C13_Witness ==
    /\ Evaluated
    /\ OperatorOf = "exists"
    /\ inputs.variables = (x :> PyStr(<<"a">>))
    /\ Get(inputs.condition, "value", PyNone) = PyStr(<<"1", "0">>)
    /\ output = Value(TRUE)

\* C14: for every operator other than exists, an absent variable gives true
\* for not_equals and false for every other operator (equals, contains,
\* greater_than, less_than, unknown), whatever the condition's value.
C14_AbsentVariable ==
    (Evaluated /\ OperatorOf # "exists" /\ NamedVariable \notin DOMAIN inputs.variables)
        => output = Value(OperatorOf = "not_equals")

\* C14 witness: not_equals with the empty string as value on an absent
\* variable returned true
C14_Witness ==
    /\ Evaluated
    /\ OperatorOf = "not_equals"
    /\ NamedVariable = x
    /\ x \notin DOMAIN inputs.variables
    /\ Get(inputs.condition, "value", PyNone) = PyStr(<<>>)
    /\ output = Value(TRUE)

(***************************************************************************)
(* Properties of _filter_templates_by_conditions (SpecFunctions, Spec)     *)
(***************************************************************************)
\* a template has no conditions, or every condition of it evaluates true
Eligible(t, variables) ==
    LET conditions == Get(t, "conditions", <<>>)
    IN  \A i \in 1..Len(conditions) :
            evaluate_condition(conditions[i], variables) = Value(TRUE)

\* the elements of a list of templates that are eligible, in list order
EligibleOf(templates, variables) ==
    LET Test(t) == Eligible(t, variables)
    IN  SelectSeq(templates, Test)

\* C11: _filter_templates_by_conditions returns exactly the input templates
\* that have no conditions or whose conditions all evaluate true against
\* the variables, in their input order.
C11_ConditionFilter ==
    (inputs.fn = "_filter_templates_by_conditions" /\ output # NoOutput)
        => output = Value(EligibleOf(inputs.templates, inputs.variables))

\* C11 witness: of three candidates under x = "a", the one without
\* conditions and the one whose two conditions hold were returned in order,
\* the one with a condition that fails beside one that holds was dropped
C11_Witness ==
    /\ inputs.fn = "_filter_templates_by_conditions"
    /\ output # NoOutput
    /\ inputs.variables = (x :> PyStr(<<"a">>))
    /\ Len(inputs.templates) = 3
    /\ "conditions" \notin DOMAIN inputs.templates[1]
    /\ Get(inputs.templates[2], "conditions", <<>>) =
          <<[variable |-> x, operator |-> "exists"],
            [variable |-> x, operator |-> "equals", value |-> PyStr(<<"b">>)]>>
    /\ Len(Get(inputs.templates[3], "conditions", <<>>)) = 2
    /\ output = Value(<<inputs.templates[1], inputs.templates[3]>>)

\* the consequence of C11 for generate_notification (specification Spec):
\* a selected template satisfies all of its conditions under the caller's
\* variables
SelectedIsEligible ==
    \A r \in Calls :
        ~template[r].isNone => Eligible(template[r].t, args[r].variables)

(***************************************************************************)
(* Properties of apply_template (specification SpecFunctions)              *)
(***************************************************************************)
\* apply_template has been called and has finished
Applied == inputs.fn = "apply_template" /\ output # NoOutput

\* the value the priority order gives placeholder {name}: the variable, else
\* the default under "{name}", else the default under name; NoValue if none
NoValue == [isNone |-> TRUE]

Resolved(name) ==
    IF name \in DOMAIN inputs.variables
    THEN [isNone |-> FALSE, s |-> Str(inputs.variables[name])]
    ELSE IF Braced(name) \in DOMAIN inputs.defaults
    THEN [isNone |-> FALSE, s |-> Str(inputs.defaults[Braced(name)])]
    ELSE IF name \in DOMAIN inputs.defaults
    THEN [isNone |-> FALSE, s |-> Str(inputs.defaults[name])]
    ELSE NoValue

\* the names of the placeholders of a string
PlaceholderNames(s) ==
    LET pieces == {SubSeq(s, i + 1, j - 1) : i \in 1..Len(s), j \in 1..Len(s)}
    IN  {name \in pieces :
            /\ name # <<>>
            /\ \A k \in 1..Len(name) : name[k] \notin {"{", "}"}
            /\ Contains(s, Braced(name))}

\* no resolved value of a placeholder of the template holds a brace
PlainValues ==
    \A name \in PlaceholderNames(inputs.template_string) :
        ~Resolved(name).isNone =>
            \A k \in 1..Len(Resolved(name).s) : Resolved(name).s[k] \notin {"{", "}"}

\* one pass over s from position i: every placeholder that has a value is
\* written as that value, everything else is copied
RECURSIVE OnePass(_, _)
OnePass(s, i) ==
    IF i > Len(s) THEN <<>>
    ELSE LET j == IF s[i] = "{" THEN FirstClose(s, i + 1) ELSE 0
         IN  IF j > i + 1 /\ ~Resolved(SubSeq(s, i + 1, j - 1)).isNone
             THEN Resolved(SubSeq(s, i + 1, j - 1)).s \o OnePass(s, j + 1)
             ELSE <<s[i]>> \o OnePass(s, i + 1)

\* C15: every placeholder {name} is resolved in the order: the caller's
\* variable name, else the default under the brace-wrapped key "{name}",
\* else the default under the bare key name; the brace-wrapped default wins
\* over the bare one and a present variable beats both.
C15_ResolutionOrder ==
    (Applied /\ PlainValues /\ PlaceholderNames(inputs.template_string) # {})
        => output = Value(OnePass(inputs.template_string, 1))

\* C15 witness: "{x}" with x absent and both default keys present came out
\* as the brace-wrapped default
C15_Witness ==
    /\ Applied
    /\ inputs.template_string = <<"{", "x", "}">>
    /\ x \notin DOMAIN inputs.variables
    /\ {Braced(x), x} \subseteq DOMAIN inputs.defaults
    /\ output = Value(<<"d">>)

\* C16: a placeholder without a variable and without a default under either
\* key stays in the output as its literal {name} text, the rendering
\* completes, and every placeholder that has a value is replaced at all of
\* its occurrences.
C16_UnresolvedPreserved ==
    (Applied /\ PlainValues)
        => /\ output.kind = "returned"
           /\ \A name \in PlaceholderNames(inputs.template_string) :
                IF Resolved(name).isNone
                THEN Contains(output.value, Braced(name))
                ELSE ~Contains(output.value, Braced(name))
           /\ (\A name \in PlaceholderNames(inputs.template_string) :
                    Resolved(name).isNone)
                => output.value = inputs.template_string

\* C16 witness: in "{y}a{x}" y has no value and x has one; {y} stayed and
\* {x} was replaced
C16_Witness ==
    /\ Applied
    /\ inputs.template_string = <<"{", "y", "}", "a", "{", "x", "}">>
    /\ inputs.variables = (x :> PyStr(<<"v">>))
    /\ inputs.defaults = EmptyDict
    /\ output = Value(<<"{", "y", "}", "a", "v">>)

(***************************************************************************)
(* Properties of _process_notification_content (SpecFunctions)             *)
(***************************************************************************)
\* _process_notification_content has been called and has finished
Processed == inputs.fn = "_process_notification_content" /\ output # NoOutput

\* the message after substitution, before truncation
RenderedMessage == apply_template(inputs.message, inputs.variables, inputs.defaults)

\* title and data values are the substituted ones, never shortened
TitleAndDataWhole ==
    /\ output.value.title = apply_template(inputs.title, inputs.variables, inputs.defaults)
    /\ \A k \in DOMAIN inputs.data :
        output.value.data[k] =
            IF inputs.data[k].t = "str"
            THEN PyStr(apply_template(inputs.data[k].s, inputs.variables, inputs.defaults))
            ELSE inputs.data[k]

\* C17 as stated: with max_length supplied, a rendered message longer than
\* max_length comes back as its first max_length - 3 characters followed by
\* "...", of total length exactly max_length; a message of length at most
\* max_length comes back unchanged; title and data are never truncated.
C17_Original ==
    (Processed /\ inputs.max_length # PyNone)
        => /\ IF Len(RenderedMessage) > inputs.max_length.n
              THEN /\ output.value.message =
                         SubSeq(RenderedMessage, 1, inputs.max_length.n - 3) \o Ellipsis
                   /\ Len(output.value.message) = inputs.max_length.n
              ELSE output.value.message = RenderedMessage
           /\ TitleAndDataWhole

\* what does hold: the statement of C17 for every max_length of at least 3
TruncationFromThree ==
    (Processed /\ inputs.max_length # PyNone /\ inputs.max_length.n >= 3)
        => /\ IF Len(RenderedMessage) > inputs.max_length.n
              THEN /\ output.value.message =
                         SubSeq(RenderedMessage, 1, inputs.max_length.n - 3) \o Ellipsis
                   /\ Len(output.value.message) = inputs.max_length.n
              ELSE output.value.message = RenderedMessage
           /\ TitleAndDataWhole

(***************************************************************************)
(* Properties of _weighted_random_choice (specification SpecFunctions)     *)
(***************************************************************************)
\* _weighted_random_choice has been called and has finished
Chosen == inputs.fn = "_weighted_random_choice" /\ output # NoOutput

\* the weight of a template, a missing one counted as 0
WeightOf(t) == IF "weight" \in DOMAIN t THEN t.weight ELSE 0

\* C18: for a non-empty candidate list with non-negative weights in which
\* some template has a weight above 0, only a template with a weight above 0
\* can be returned; the result is always one of the input templates, and an
\* empty input returns None.
C18_WeightedChoice ==
    Chosen =>
        IF inputs.templates = <<>> THEN output = Value(NoTemplate)
        ELSE /\ output.kind = "returned"
             /\ \E i \in 1..Len(inputs.templates) : output.value = inputs.templates[i]
             /\ (\E i \in 1..Len(inputs.templates) : WeightOf(inputs.templates[i]) > 0)
                    => WeightOf(output.value) > 0

\* C18 witness: from the weights 0, 10, 0 the template of weight 10 came out
C18_Witness ==
    /\ Chosen
    /\ Len(inputs.templates) = 3
    /\ WeightOf(inputs.templates[1]) = 0
    /\ WeightOf(inputs.templates[2]) = 10
    /\ WeightOf(inputs.templates[3]) = 0
    /\ output = Value(inputs.templates[2])

(***************************************************************************)
(* Properties of the data merge (specification Spec)                       *)
(***************************************************************************)
\* the stored document of the template selected for call r, its own data
\* and the default data of the placement
SelectedDoc(r) == TheStore.templates[template[r].t.id]

OwnData(r) == Get(SelectedDoc(r), "data", EmptyDict)

DefaultData == Get(TheStore.parent, "defaultData", EmptyDict)

\* a data value after substitution against the variables of call r and the
\* placement's previewDefaults
RenderedValue(r, v) ==
    IF v.t = "str"
    THEN PyStr(apply_template(v.s, args[r].variables,
                              Get(TheStore.parent, "previewDefaults", EmptyDict)))
    ELSE v

\* C19: on the template-selected branch the payload below the attribution
\* keys is the template's own data when it has any, else the placement's
\* default data, overlaid with the caller's data: a key of both carries the
\* caller's value, rendered, and placement default data is not mixed in
\* when the template has its own data.
C19_DataMerge ==
    \A r \in Calls :
        (Selected(r) /\ MappingData(r)) =>
            LET base == IF OwnData(r) # EmptyDict THEN OwnData(r) ELSE DefaultData
                caller == OrEmptyDict(args[r].data)
                payload == (DOMAIN result[r].data) \ AttributionKeys
            IN  /\ payload = ((DOMAIN base) \cup (DOMAIN caller)) \ AttributionKeys
                /\ \A k \in payload :
                    result[r].data[k] =
                        RenderedValue(r, IF k \in DOMAIN caller THEN caller[k] ELSE base[k])

\* C19 witness: the selected template has its own data with key k, the
\* caller sent another value for k, the placement has default data with key
\* d: the result carries the caller's k, rendered, the template's j, and no d
C19_Witness ==
    \E r \in Calls :
        /\ Selected(r)
        /\ args[r].data = CallerData
        /\ OwnData(r) = TemplateData
        /\ DefaultData = PlacementData
        /\ result[r].data["k"] = PyStr(<<"a">>)
        /\ result[r].data["j"] = PyStr(<<"a">>)
        /\ "d" \notin DOMAIN result[r].data

(***************************************************************************)
(* The other endpoints of api.py                                           *)
(***************************************************************************)
Endpoints ==
    {"generate_notification", "get_topic_subscribers", "subscribe_to_topic",
     "unsubscribe_from_topic", "log_push_open", "log_app_open",
     "sync_notification_permission"}

\* the method each handler accepts
MethodOf(endpoint) == IF endpoint = "get_topic_subscribers" THEN "GET" ELSE "POST"

\* firestore.SERVER_TIMESTAMP
SERVER_TIMESTAMP == PyStr(<<"T">>)

Unknown == PyStr(<<"u", "n", "k", "n", "o", "w", "n">>)

\* mutant: the union replaces the stored list
ArrayUnion_Overwrite(list, e) == <<e>>

\* firestore.ArrayUnion([e]) and firestore.ArrayRemove([e]) on a stored list
ArrayUnion(list, e) == IF e \in Range(list) THEN list ELSE Append(list, e)

ArrayRemove(list, e) == LET Keep(u) == u # e IN SelectSeq(list, Keep)

\* what the try block of a handler did: its response, the collections of the
\* app after it, the store operations it performed
Handled(resp, coll, ops) == [response |-> resp, coll |-> coll, ops |-> ops]

\* except Exception as e: cors_response({'error': str(e)}, 500)
ServerError(e, coll, ops) == Handled(cors_response([error |-> e], 500), coll, ops)

\* the try block of get_topic_subscribers; params: request.args
get_topic_subscribers(app_id, params, coll, store_fails) ==
    LET topic_id == Get(params, "topic_id", PyNone)
    IN  IF ~Truthy(topic_id)
        THEN Handled(cors_response([error |-> "topic_id is required"], 400), coll, <<>>)
        ELSE IF store_fails
        THEN ServerError("store", coll, <<Read("copylab_topics.get", app_id, FALSE)>>)
        ELSE Handled(
               cors_response(
                 [subscriber_ids |->
                    IF topic_id.s \in DOMAIN coll.copylab_topics
                    THEN Get(coll.copylab_topics[topic_id.s], "subscriber_ids", <<>>)
                    ELSE <<>>], 200),
               coll, <<Read("copylab_topics.get", app_id, TRUE)>>)

\* the try block of subscribe_to_topic: set(..., merge=True) with ArrayUnion
subscribe_to_topic(app_id, body, coll, store_fails) ==
    LET topic_id == Get(body, "topic_id", PyNone)
        user_id == Get(body, "user_id", PyNone)
        old == IF topic_id.s \in DOMAIN coll.copylab_topics
               THEN coll.copylab_topics[topic_id.s] ELSE EmptyDict
        doc == DictUpdate(old,
                 [subscriber_ids |->
                      ArrayUnion(Get(old, "subscriber_ids", <<>>), user_id.s),
                  updated_at |-> SERVER_TIMESTAMP])
    IN  IF ~Truthy(topic_id) \/ ~Truthy(user_id)
        THEN Handled(cors_response([error |-> "topic_id and user_id are required"], 400),
                     coll, <<>>)
        ELSE IF store_fails
        THEN ServerError("store", coll, <<Read("copylab_topics.set", app_id, FALSE)>>)
        ELSE Handled(cors_response([success |-> TRUE], 200),
                     [coll EXCEPT !.copylab_topics =
                          (topic_id.s :> doc) @@ coll.copylab_topics],
                     <<Read("copylab_topics.set", app_id, TRUE)>>)

\* the try block of unsubscribe_from_topic: update(...) with ArrayRemove, which
\* raises NotFound when the topic document does not exist
unsubscribe_from_topic(app_id, body, coll, store_fails) ==
    LET topic_id == Get(body, "topic_id", PyNone)
        user_id == Get(body, "user_id", PyNone)
    IN  IF ~Truthy(topic_id) \/ ~Truthy(user_id)
        THEN Handled(cors_response([error |-> "topic_id and user_id are required"], 400),
                     coll, <<>>)
        ELSE IF store_fails
        THEN ServerError("store", coll, <<Read("copylab_topics.update", app_id, FALSE)>>)
        ELSE IF topic_id.s \notin DOMAIN coll.copylab_topics
        THEN ServerError("NotFound", coll, <<Read("copylab_topics.update", app_id, FALSE)>>)
        ELSE LET old == coll.copylab_topics[topic_id.s]
                 doc == DictUpdate(old,
                          [subscriber_ids |->
                               ArrayRemove(Get(old, "subscriber_ids", <<>>), user_id.s),
                           updated_at |-> SERVER_TIMESTAMP])
             IN  Handled(cors_response([success |-> TRUE], 200),
                         [coll EXCEPT !.copylab_topics =
                              (topic_id.s :> doc) @@ coll.copylab_topics],
                         <<Read("copylab_topics.update", app_id, TRUE)>>)

\* the optional fields log_push_open copies when the body has a truthy value
OptionalFields ==
    {"notification_id", "placement_id", "placement_name", "template_id", "template_name"}

\* the try block of log_push_open
log_push_open(app_id, body, coll, store_fails) ==
    LET user_id == Get(body, "user_id", PyNone)
        copied == {f \in OptionalFields : Truthy(Get(body, f, PyNone))}
        data == DictUpdate(
                  [user_id |-> user_id,
                   timestamp |-> SERVER_TIMESTAMP,
                   platform |-> Get(body, "platform", Unknown),
                   type |-> Get(body, "type", Unknown)],
                  [f \in copied |-> body[f]])
    IN  IF ~Truthy(user_id)
        THEN Handled(cors_response([error |-> "user_id is required"], 400), coll, <<>>)
        ELSE IF store_fails
        THEN ServerError("store", coll, <<Read("copylab_push_open.add", app_id, FALSE)>>)
        ELSE Handled(cors_response([success |-> TRUE], 200),
                     [coll EXCEPT !.copylab_push_open = Append(@, data)],
                     <<Read("copylab_push_open.add", app_id, TRUE)>>)

\* the try block of log_app_open
log_app_open(app_id, body, coll, store_fails) ==
    LET user_id == Get(body, "user_id", PyNone)
        data == [timestamp |-> SERVER_TIMESTAMP,
                 platform |-> Get(body, "platform", Unknown)]
    IN  IF ~Truthy(user_id)
        THEN Handled(cors_response([error |-> "user_id is required"], 400), coll, <<>>)
        ELSE IF store_fails
        THEN ServerError("store", coll, <<Read("app_opens.add", app_id, FALSE)>>)
        ELSE Handled(cors_response([success |-> TRUE], 200),
                     [coll EXCEPT !.app_opens =
                          (user_id.s :> Append(Get(coll.app_opens, user_id.s, <<>>), data))
                              @@ coll.app_opens],
                     <<Read("app_opens.add", app_id, TRUE)>>)

\* the try block of sync_notification_permission: set(data, merge=True)
sync_notification_permission(app_id, body, coll, store_fails) ==
    LET user_id == Get(body, "user_id", PyNone)
        notification_status == Get(body, "notification_status", PyNone)
        data == [notification_status |-> notification_status,
                 last_updated |-> SERVER_TIMESTAMP,
                 platform |-> Get(body, "platform", Unknown)]
    IN  IF ~Truthy(user_id) \/ ~Truthy(notification_status)
        THEN Handled(
               cors_response([error |-> "user_id and notification_status are required"], 400),
               coll, <<>>)
        ELSE IF store_fails
        THEN ServerError("store", coll, <<Read("copylab_users.set", app_id, FALSE)>>)
        ELSE Handled(cors_response([success |-> TRUE], 200),
                     [coll EXCEPT !.copylab_users =
                          (user_id.s :>
                             DictUpdate(Get(coll.copylab_users, user_id.s, EmptyDict), data))
                              @@ coll.copylab_users],
                     <<Read("copylab_users.set", app_id, TRUE)>>)

\* the try block of the handler of an endpoint
TryBlock(endpoint, app_id, body, coll, store_fails) ==
    CASE endpoint = "get_topic_subscribers" ->
            get_topic_subscribers(app_id, body, coll, store_fails)
      [] endpoint = "subscribe_to_topic" ->
            subscribe_to_topic(app_id, body, coll, store_fails)
      [] endpoint = "unsubscribe_from_topic" ->
            unsubscribe_from_topic(app_id, body, coll, store_fails)
      [] endpoint = "log_push_open" ->
            log_push_open(app_id, body, coll, store_fails)
      [] endpoint = "log_app_open" ->
            log_app_open(app_id, body, coll, store_fails)
      [] endpoint = "sync_notification_permission" ->
            sync_notification_permission(app_id, body, coll, store_fails)

\* the collections of an app, those of an app nothing was written for included
CollectionsOf(app) ==
    IF app \in DOMAIN collections THEN collections[app] ELSE EmptyCollections

\* a handler from the request to its response: OPTIONS, the method check, the
\* API key, then the try block.  body_ok = FALSE: request.get_json() is not a
\* JSON object (the GET handler reads request.args and never the body)
Endpoint(r, endpoint, method, api_key, lookup_fails, body_ok, body, store_fails) ==
    /\ LET key == validate_api_key(api_key, lookup_fails)
           early ==
             CASE method = "OPTIONS" -> cors_response(EmptyDict, 200)
               [] method # MethodOf(endpoint) ->
                    cors_response([error |-> "Method not allowed"], 405)
               [] key.outcome = "exception" -> [status |-> -1, body |-> "uncaught"]
               [] key.outcome = "rejected" ->
                    cors_response([error |-> "Invalid or missing API key"], 401)
               [] MethodOf(endpoint) = "POST" /\ ~body_ok ->
                    cors_response([error |-> "AttributeError"], 500)
               [] OTHER -> NoResponse
           lookup == IF method = MethodOf(endpoint)
                     THEN KeyLookup(api_key, lookup_fails) ELSE <<>>
       IN  IF early # NoResponse
           THEN /\ response' = [response EXCEPT ![r] = early]
                /\ reads' = [reads EXCEPT ![r] = lookup]
                /\ UNCHANGED collections
           ELSE LET done == TryBlock(endpoint, key.app_id, body,
                                     CollectionsOf(key.app_id), store_fails)
                IN  /\ response' = [response EXCEPT ![r] = done.response]
                    /\ reads' = [reads EXCEPT ![r] = lookup \o done.ops]
                    /\ collections' = [collections EXCEPT ![key.app_id] = done.coll]
    /\ request' = [request EXCEPT ![r] =
            Request(endpoint, method, api_key, body_ok, body)]
    /\ pc' = [pc EXCEPT ![r] = "responded"]
    /\ UNCHANGED <<heap, history, sdk, inputs, output, db, _CONFIG, args, placement_config,
                   eligible_template_ids, template, result>>

GetTopicSubscribers(r, method, api_key, lookup_fails, body_ok, body, store_fails) ==
    /\ pc[r] = "idle"
    /\ Endpoint(r, "get_topic_subscribers", method, api_key, lookup_fails, body_ok, body,
                store_fails)

SubscribeToTopic(r, method, api_key, lookup_fails, body_ok, body, store_fails) ==
    /\ pc[r] = "idle"
    /\ Endpoint(r, "subscribe_to_topic", method, api_key, lookup_fails, body_ok, body,
                store_fails)

UnsubscribeFromTopic(r, method, api_key, lookup_fails, body_ok, body, store_fails) ==
    /\ pc[r] = "idle"
    /\ Endpoint(r, "unsubscribe_from_topic", method, api_key, lookup_fails, body_ok, body,
                store_fails)

LogPushOpen(r, method, api_key, lookup_fails, body_ok, body, store_fails) ==
    /\ pc[r] = "idle"
    /\ Endpoint(r, "log_push_open", method, api_key, lookup_fails, body_ok, body,
                store_fails)

LogAppOpen(r, method, api_key, lookup_fails, body_ok, body, store_fails) ==
    /\ pc[r] = "idle"
    /\ Endpoint(r, "log_app_open", method, api_key, lookup_fails, body_ok, body,
                store_fails)

SyncNotificationPermission(r, method, api_key, lookup_fails, body_ok, body, store_fails) ==
    /\ pc[r] = "idle"
    /\ Endpoint(r, "sync_notification_permission", method, api_key, lookup_fails, body_ok,
                body, store_fails)

\* the requests of the specification of the endpoints
Methods == {"GET", "POST", "OPTIONS"}

\* X-API-Key: missing, empty, without the prefix, of two parts, of the right
\* form for an app but not stored, stored, of the right form for no app
ApiKeys ==
    {PyNone, PyStr(<<>>),
     PyStr(<<"x", "x", "_", "A", "_", "k">>),
     PyStr(<<"c", "l", "_", "A">>),
     PyStr(<<"c", "l", "_", "A", "_", "z">>),
     PyStr(KeyOf(AppA)),
     PyStr(<<"c", "l", "_", "C", "_", "k">>)}

\* JSON bodies (query parameters for the GET handler); None: the field is absent
ApiBodies ==
    {[topic_id |-> t, user_id |-> u, notification_status |-> n] :
        t \in {PyNone, PyStr(<<"t">>)},
        u \in {PyNone, PyStr(<<"u">>)},
        n \in {PyNone, PyStr(<<"o", "n">>)}}

GenerateBodies ==
    {[placement_id |-> p, variables |-> v, data |-> EmptyDict,
      fallback_title |-> PyNone, fallback_message |-> PyNone] :
        p \in {PyNone, PyStr(PlacementId)}, v \in {EmptyDict, (<<"x">> :> PyStr(<<"a">>))}}

\* the collections of app A when the requests arrive: nothing, or a topic with
\* one subscriber
ApiCollections ==
    {EmptyCollections,
     [EmptyCollections EXCEPT !.copylab_topics =
          (<<"t">> :> [subscriber_ids |-> << <<"u">> >>,
                       updated_at |-> SERVER_TIMESTAMP])]}

InitApi ==
    /\ db = [app \in Apps |-> IF app = AppA THEN ConcStoreA ELSE ConcStoreB]
    /\ _CONFIG = [api_key |-> PyNone, app_id |-> PyNone]
    /\ pc = [r \in Calls |-> "idle"]
    /\ args = [r \in Calls |-> NoArgs]
    /\ placement_config = [r \in Calls |-> NoConfig]
    /\ eligible_template_ids = [r \in Calls |-> NoRestriction]
    /\ template = [r \in Calls |-> NoTemplate]
    /\ result = [r \in Calls |-> NoResult]
    /\ reads = [r \in Calls |-> <<>>]
    /\ request = [r \in Calls |-> NoRequest]
    /\ history = <<>>
    /\ heap = NoHeap
    /\ sdk = NoSdk
    /\ response = [r \in Calls |-> NoResponse]
    /\ \E coll \in ApiCollections :
          collections = [app \in Apps |-> IF app = AppA THEN coll ELSE EmptyCollections]
    /\ inputs = NoInputs
    /\ output = NoOutput

NextApi ==
    \/ \E method \in Methods, api_key \in ApiKeys, lookup_fails \in BOOLEAN,
          body_ok \in BOOLEAN, body \in GenerateBodies :
            ApiGenerateNotification(1, method, api_key, lookup_fails, body_ok, body)
    \/ Steps(1)
    \/ ApiRespond(1)
    \/ \E method \in Methods, api_key \in ApiKeys, lookup_fails \in BOOLEAN,
          body_ok \in BOOLEAN, body \in ApiBodies, store_fails \in BOOLEAN :
            \/ GetTopicSubscribers(1, method, api_key, lookup_fails, body_ok, body,
                                   store_fails)
            \/ SubscribeToTopic(1, method, api_key, lookup_fails, body_ok, body,
                                store_fails)
            \/ UnsubscribeFromTopic(1, method, api_key, lookup_fails, body_ok, body,
                                    store_fails)
            \/ LogPushOpen(1, method, api_key, lookup_fails, body_ok, body, store_fails)
            \/ LogAppOpen(1, method, api_key, lookup_fails, body_ok, body, store_fails)
            \/ SyncNotificationPermission(1, method, api_key, lookup_fails, body_ok,
                                          body, store_fails)

SpecApi == InitApi /\ [][NextApi]_vars

(***************************************************************************)
(* Properties of the API key check                                         *)
(***************************************************************************)
\* request r was answered
Answered(r) == request[r] # NoRequest /\ pc[r] = "responded"

\* the X-API-Key header is missing, does not start with cl_, has fewer than
\* three parts between underscores, or is not stored under the app it names
Unauthorized(api_key) ==
    \/ api_key = PyNone
    \/ ~MatchesAt(api_key.s, 1, KEY_PREFIX)
    \/ Len(Split(api_key.s, "_")) < 3
    \/ api_key.s \notin Scoped(Split(api_key.s, "_")[2]).api_keys

\* every read of a key document request r made returned
LookupCompleted(r) ==
    \A i \in 1..Len(reads[r]) : reads[r][i].op = "api_keys" => reads[r][i].ok

\* request r was answered 401 with an error field, and its only store
\* operation was the read of the key document
Refused(r) ==
    /\ response[r].status = 401
    /\ "error" \in DOMAIN response[r].body
    /\ \A i \in 1..Len(reads[r]) : reads[r][i].op = "api_keys"
    /\ Len(reads[r]) <= 1

Deliver(r) ==
    /\ pc[r] = "responded"
    /\ request[r] # NoRequest
    /\ history' = Append(history, [request |-> request[r], response |-> response[r]])
    /\ pc' = [pc EXCEPT ![r] = "idle"]
    /\ request' = [request EXCEPT ![r] = NoRequest]
    /\ response' = [response EXCEPT ![r] = NoResponse]
    /\ reads' = [reads EXCEPT ![r] = <<>>]
    /\ UNCHANGED <<heap, sdk, inputs, output, collections, db, _CONFIG, args, placement_config,
                   eligible_template_ids, template, result>>

TopicUsers == {<<"u">>, <<"v">>}

\* topic_id and user_id of the requests to the topic endpoints
TopicBody(user) ==
    [topic_id |-> PyStr(<<"t">>), user_id |-> user, notification_status |-> PyNone]

\* requests for app A by either user, with and without a store failure, and
\* requests for app B by one user
TopicRequests ==
    {[api_key |-> PyStr(KeyOf(AppA)), user |-> PyStr(u), store_fails |-> f] :
        u \in TopicUsers, f \in BOOLEAN}
    \cup {[api_key |-> PyStr(KeyOf(AppB)), user |-> PyStr(<<"u">>), store_fails |-> FALSE]}

InitTopics == InitApi

NextTopics ==
    \/ /\ Len(history) < MaxRequests
       /\ \E q \in TopicRequests :
            \/ /\ q.user = PyStr(<<"u">>)
               /\ GetTopicSubscribers(1, "GET", q.api_key, FALSE, TRUE, TopicBody(PyNone),
                                      q.store_fails)
            \/ SubscribeToTopic(1, "POST", q.api_key, FALSE, TRUE, TopicBody(q.user),
                                q.store_fails)
            \/ UnsubscribeFromTopic(1, "POST", q.api_key, FALSE, TRUE, TopicBody(q.user),
                                    q.store_fails)
    \/ Deliver(1)

SpecTopics == InitTopics /\ [][NextTopics]_vars

(***************************************************************************)
(* Properties of the topic endpoints                                       *)
(***************************************************************************)
\* the app the i-th answered request was authenticated for
AppAt(i) == Split(history[i].request.api_key.s, "_")[2]

\* the i-th answered request is a successful call of the endpoint for the
\* topic and the app
Succeeded(i, endpoint, topic, app) ==
    /\ history[i].request.endpoint = endpoint
    /\ history[i].response.status = 200
    /\ history[i].request.body.topic_id = PyStr(topic)
    /\ AppAt(i) = app

Subscribed(i, topic, user, app) ==
    /\ Succeeded(i, "subscribe_to_topic", topic, app)
    /\ history[i].request.body.user_id = PyStr(user)

Unsubscribed(i, topic, user, app) ==
    /\ Succeeded(i, "unsubscribe_from_topic", topic, app)
    /\ history[i].request.body.user_id = PyStr(user)

Got(i, topic, app) == Succeeded(i, "get_topic_subscribers", topic, app)

\* the list the i-th answered request returned
ListAt(i) == Range(history[i].response.body.subscriber_ids)

TopicIds == {<<"t">>}

\* C21: after a successful subscribe_to_topic(topic, user) of an app every
\* later get_topic_subscribers(topic) of the app returns a list containing
\* user until an unsubscribe_from_topic(topic, user) of the app succeeds; after
\* a successful unsubscribe the list does not contain user until the next
\* successful subscribe; and between two reads of a topic the membership of a
\* user changes only by a successful subscribe or unsubscribe of that user
C21_TopicSubscriptions ==
    \A topic \in TopicIds, app \in Apps, user \in TopicUsers :
      \A i \in 1..Len(history), j \in 1..Len(history) :
        (i < j /\ Got(j, topic, app)) =>
          /\ (/\ Subscribed(i, topic, user, app)
              /\ \A k \in (i+1)..(j-1) : ~Unsubscribed(k, topic, user, app))
             => user \in ListAt(j)
          /\ (/\ Unsubscribed(i, topic, user, app)
              /\ \A k \in (i+1)..(j-1) : ~Subscribed(k, topic, user, app))
             => user \notin ListAt(j)
          /\ (/\ Got(i, topic, app)
              /\ \A k \in (i+1)..(j-1) :
                    /\ ~Subscribed(k, topic, user, app)
                    /\ ~Unsubscribed(k, topic, user, app))
             => (user \in ListAt(i) <=> user \in ListAt(j))

\* v subscribed and u unsubscribed from a topic of app A that u was on: the
\* list read afterwards holds v and not u
C21_Witness ==
    /\ Len(history) = 3
    /\ Subscribed(1, <<"t">>, <<"v">>, AppA)
    /\ Unsubscribed(2, <<"t">>, <<"u">>, AppA)
    /\ Got(3, <<"t">>, AppA)
    /\ history[3].response.body.subscriber_ids = << <<"v">> >>

(***************************************************************************)
(* The client SDK (Sources/CopyLab/CopyLab.py)                             *)
(***************************************************************************)
\* what a call of the SDK did: returned or raised, and the HTTP requests it sent
SdkOutcome(kind, error, sent) == [kind |-> kind, error |-> error, sent |-> sent]

\* cls._make_request(endpoint, method, body); http: the server answered without
\* an error field ("ok"), with one ("error"), or the request failed ("failed")
_make_request(config, endpoint, method, body, http) ==
    IF ~Truthy(config._api_key)
    THEN SdkOutcome("raised", "CopyLabError", <<>>)
    ELSE LET sent == <<[endpoint |-> endpoint, method |-> method,
                        api_key |-> config._api_key, body |-> body]>>
         IN  IF http = "ok" THEN SdkOutcome("returned", "", sent)
             ELSE SdkOutcome("raised", "CopyLabError", sent)

\* mutant: the identified user is preferred to the one passed
EffectiveUser_IdentifiedFirst(user_id, identified) ==
    IF Truthy(identified) THEN identified ELSE user_id

\* user_id or cls._user_id
EffectiveUser(user_id, identified) ==
    IF Truthy(user_id) THEN user_id ELSE identified

\* a user-scoped method: the body with the effective user, CopyLabError
\* without a request when there is none, the request otherwise
UserScoped(config, endpoint, fields, user_id, http) ==
    LET body == DictUpdate(fields, [user_id |-> EffectiveUser(user_id, config._user_id)])
    IN  IF ~Truthy(body["user_id"])
        THEN SdkOutcome("raised", "CopyLabError", <<>>)
        ELSE _make_request(config, endpoint, "POST", body, http)

Python == PyStr(<<"p", "y">>)

\* the answers of the server to a request of the SDK
HttpOutcomes == {"ok", "error", "failed"}

\* CopyLab.configure(api_key)
ClientConfigure(api_key) ==
    /\ sdk' = [sdk EXCEPT !._api_key = api_key]
    /\ inputs' = [fn |-> "configure", api_key |-> api_key]
    /\ output' = SdkOutcome("returned", "", <<>>)
    /\ UNCHANGED <<heap, history, request, collections, db, _CONFIG, pc, args, placement_config,
                   eligible_template_ids, template, result, reads, response>>

\* CopyLab.identify(user_id)
ClientIdentify(user_id) ==
    /\ sdk' = [sdk EXCEPT !._user_id = user_id]
    /\ inputs' = [fn |-> "identify", user_id |-> user_id]
    /\ output' = SdkOutcome("returned", "", <<>>)
    /\ UNCHANGED <<heap, history, request, collections, db, _CONFIG, pc, args, placement_config,
                   eligible_template_ids, template, result, reads, response>>

\* CopyLab.logout()
ClientLogout ==
    /\ sdk' = [sdk EXCEPT !._user_id = PyNone]
    /\ inputs' = [fn |-> "logout"]
    /\ output' = SdkOutcome("returned", "", <<>>)
    /\ UNCHANGED <<heap, history, request, collections, db, _CONFIG, pc, args, placement_config,
                   eligible_template_ids, template, result, reads, response>>

\* a method that leaves the class attributes alone
ClientCall(fn, user_id, outcome) ==
    /\ inputs' = [fn |-> fn, user_id |-> user_id]
    /\ output' = outcome
    /\ UNCHANGED <<heap, sdk, history, request, collections, db, _CONFIG, pc, args,
                   placement_config, eligible_template_ids, template, result, reads,
                   response>>

\* CopyLab.generate_notification(placement_id)
ClientGenerateNotification(http) ==
    /\ http \in HttpOutcomes
    /\ ClientCall("generate_notification", PyNone,
            _make_request(sdk, "generate_notification", "POST",
                          [placement_id |-> PyStr(PlacementId), variables |-> EmptyDict,
                           data |-> EmptyDict], http))

\* CopyLab.get_topic_subscribers(topic_id)
ClientGetTopicSubscribers(http) ==
    /\ http \in HttpOutcomes
    /\ ClientCall("get_topic_subscribers", PyNone,
            _make_request(sdk, "get_topic_subscribers", "GET",
                          [topic_id |-> PyStr(<<"t">>)], http))

\* CopyLab.subscribe_to_topic(topic_id, user_id)
ClientSubscribeToTopic(user_id, http) ==
    /\ http \in HttpOutcomes
    /\ ClientCall("subscribe_to_topic", user_id,
            UserScoped(sdk, "subscribe_to_topic", [topic_id |-> PyStr(<<"t">>)],
                       user_id, http))

\* CopyLab.unsubscribe_from_topic(topic_id, user_id)
ClientUnsubscribeFromTopic(user_id, http) ==
    /\ http \in HttpOutcomes
    /\ ClientCall("unsubscribe_from_topic", user_id,
            UserScoped(sdk, "unsubscribe_from_topic", [topic_id |-> PyStr(<<"t">>)],
                       user_id, http))

\* CopyLab.log_push_open(user_id): the optional ids are omitted
ClientLogPushOpen(user_id, http) ==
    /\ http \in HttpOutcomes
    /\ ClientCall("log_push_open", user_id,
            UserScoped(sdk, "log_push_open", [platform |-> Python], user_id, http))

\* CopyLab.log_app_open(user_id)
ClientLogAppOpen(user_id, http) ==
    /\ http \in HttpOutcomes
    /\ ClientCall("log_app_open", user_id,
            UserScoped(sdk, "log_app_open", [platform |-> Python], user_id, http))

\* CopyLab.sync_notification_permission(notification_status, user_id)
ClientSyncNotificationPermission(user_id, http) ==
    /\ http \in HttpOutcomes
    /\ ClientCall("sync_notification_permission", user_id,
            UserScoped(sdk, "sync_notification_permission",
                       [notification_status |-> PyStr(<<"o", "n">>), platform |-> Python],
                       user_id, http))

\* the arguments of the calls: an identifier, the empty string, None (omitted)
ClientKeys == {PyStr(<<>>), PyStr(KeyOf(AppA)), PyStr(KeyOf(AppB))}

ClientUsers == {PyStr(<<"u">>), PyStr(<<"v">>)}

ClientUserArgs == ClientUsers \cup {PyNone, PyStr(<<>>)}

InitClient == InitApi

NextClient ==
    \/ \E api_key \in ClientKeys : ClientConfigure(api_key)
    \/ \E user_id \in ClientUsers \cup {PyStr(<<>>)} : ClientIdentify(user_id)
    \/ ClientLogout
    \/ \E http \in HttpOutcomes : ClientGenerateNotification(http)
    \/ \E http \in HttpOutcomes : ClientGetTopicSubscribers(http)
    \/ \E user_id \in ClientUserArgs, http \in HttpOutcomes :
          \/ ClientSubscribeToTopic(user_id, http)
          \/ ClientUnsubscribeFromTopic(user_id, http)
          \/ ClientLogPushOpen(user_id, http)
          \/ ClientLogAppOpen(user_id, http)
          \/ ClientSyncNotificationPermission(user_id, http)

SpecClient == InitClient /\ [][NextClient]_vars

(***************************************************************************)
(* Properties of the client SDK                                            *)
(***************************************************************************)
UserScopedOps ==
    {"subscribe_to_topic", "unsubscribe_from_topic", "log_push_open", "log_app_open",
     "sync_notification_permission"}

ClientOps == UserScopedOps \cup {"generate_notification", "get_topic_subscribers"}

\* the call raised CopyLabError and sent no request
RaisedUnsent(o) == o.kind = "raised" /\ o.error = "CopyLabError" /\ o.sent = <<>>

\* the call sent one request, for the user
SentFor(o, user) == Len(o.sent) = 1 /\ o.sent[1].body["user_id"] = user

\* the last call, when user-scoped, sent the passed user, else the identified
\* one, and raised CopyLabError without a request when there was neither or no
\* API key; any operation without an API key raised without a request
ClientOutcome ==
    /\ (inputs.fn \in ClientOps /\ ~Truthy(sdk._api_key)) => RaisedUnsent(output)
    /\ (inputs.fn \in UserScopedOps) =>
          /\ (Truthy(sdk._api_key) /\ Truthy(inputs.user_id))
                => SentFor(output, inputs.user_id)
          /\ (Truthy(sdk._api_key) /\ ~Truthy(inputs.user_id) /\ Truthy(sdk._user_id))
                => SentFor(output, sdk._user_id)
          /\ (~Truthy(inputs.user_id) /\ ~Truthy(sdk._user_id)) => RaisedUnsent(output)

\* the identified user is the argument of the last identify, none after logout,
\* and no other call changes it; the API key is the one last configured
ClientStep ==
    /\ inputs'.fn = "identify" => sdk'._user_id = inputs'.user_id
    /\ inputs'.fn = "logout" => sdk'._user_id = PyNone
    /\ inputs'.fn \notin {"identify", "logout"} => sdk'._user_id = sdk._user_id
    /\ inputs'.fn = "configure" => sdk'._api_key = inputs'.api_key
    /\ inputs'.fn # "configure" => sdk'._api_key = sdk._api_key

\* C22: after any sequence of configure / identify / logout calls a
\* user-scoped operation of the client SDK sends the user_id passed to it,
\* otherwise the most recently identified user; with neither it raises
\* CopyLabError and sends no request; an operation before configure raises
\* CopyLabError and sends no request
C22_ClientUser == []ClientOutcome /\ [][ClientStep]_vars

\* with v identified, log_app_open() without a user_id sent a request for v
C22_Witness ==
    /\ inputs = [fn |-> "log_app_open", user_id |-> PyNone]
    /\ sdk._user_id = PyStr(<<"v">>)
    /\ Len(output.sent) = 1
    /\ output.sent[1].body["user_id"] = PyStr(<<"v">>)
    /\ output.sent[1].endpoint = "log_app_open"

(***************************************************************************)
(* Properties of the template fetch (specification Spec)                   *)
(***************************************************************************)
\* activeTemplateIds of the placement document
ActiveIds == Get(TheStore.parent, "activeTemplateIds", <<>>)

\* C23 as stated: with a non-empty activeTemplateIds list, a template selected
\* by get_random_template has its id in the list
C23_Original ==
    \A r \in Calls :
        (~template[r].isNone /\ ActiveIds # <<>>)
            => template[r].t.id \in Range(ActiveIds)

\* the full scan is not entered when a listed template survives the filters:
\* the selected template is then a listed one
ListedPreferred ==
    \A r \in Calls :
        (/\ ~template[r].isNone
         /\ ActiveIds # <<>>
         /\ \E i \in 1..Len(ActiveIds) :
              /\ ActiveIds[i] \in DOMAIN TheStore.templates
              /\ IsActive(TheStore.templates[ActiveIds[i]])
              /\ (eligible_template_ids[r].isNone
                    \/ ActiveIds[i] \in eligible_template_ids[r].ids)
              /\ Eligible(TheStore.templates[ActiveIds[i]], args[r].variables))
            => template[r].t.id \in Range(ActiveIds)

(***************************************************************************)
(* Properties of the intersection of the filter rules (SpecFilters)        *)
(***************************************************************************)
\* the rules of call r that contribute a non-empty id list
Contributing(r) ==
    {i \in 1..Len(placement_config[r].templateFilters) :
        FirstMatchIds(placement_config[r].templateFilters[i], args[r].variables) # <<>>}

\* the ids of the list rule i of call r contributes
ContributedBy(r, i) ==
    Range(FirstMatchIds(placement_config[r].templateFilters[i], args[r].variables))

\* C24: the list apply_template_filters returns, when not None, holds exactly
\* the ids common to the lists of all rules that contributed a non-empty
\* list; a rule whose matched case (or default, when no case matches) has an
\* empty list is skipped, and a matched case with an empty list does not fall
\* back to defaultTemplateIds
C24_Intersection ==
    \A r \in Calls :
        (FiltersApplied(r) /\ ~eligible_template_ids[r].isNone) =>
            /\ Contributing(r) # {}
            /\ eligible_template_ids[r].ids =
                  {id \in UNION {ContributedBy(r, i) : i \in Contributing(r)} :
                      \A i \in Contributing(r) : id \in ContributedBy(r, i)}

\* a rule whose matched case has an empty list and a non-empty default was
\* skipped: the result is the non-empty list of the other rule
C24_Witness ==
    \E r \in Calls :
        /\ FiltersApplied(r)
        /\ Len(placement_config[r].templateFilters) = 2
        /\ \E i \in {1, 2} :
              LET rule == placement_config[r].templateFilters[i]
              IN  /\ MatchingCases(rule, args[r].variables) # {}
                  /\ FirstMatchIds(rule, args[r].variables) = <<>>
                  /\ rule.defaultTemplateIds # <<>>
                  /\ Contributing(r) = {3 - i}
                  /\ eligible_template_ids[r] = Restricted(ContributedBy(r, 3 - i))

(***************************************************************************)
(* configure and get_app_id, called one after the other                    *)
(***************************************************************************)
\* configure(api_key=api_key, app_id=app_id)
Configure(api_key, app_id) ==
    /\ _CONFIG' = configure(_CONFIG, api_key, app_id)
    /\ inputs' = [fn |-> "configure", api_key |-> api_key, app_id |-> app_id]
    /\ output' = Value(PyNone)
    /\ UNCHANGED <<heap, history, sdk, request, collections, db, pc, args, placement_config,
                   eligible_template_ids, template, result, reads, response>>

\* get_app_id()
GetAppId ==
    /\ inputs' = [fn |-> "get_app_id"]
    /\ output' = Value(PyStr(get_app_id(_CONFIG)))
    /\ UNCHANGED <<heap, history, sdk, request, collections, db, _CONFIG, pc, args,
                   placement_config, eligible_template_ids, template, result, reads,
                   response>>

\* API keys: omitted, of the form cl_<id>_<rest> for two apps, without the prefix
ConfigureKeys ==
    {PyNone, PyStr(KeyOf(AppA)), PyStr(KeyOf(AppB)),
     PyStr(<<"x", "x", "_", "A", "_", "k">>),
     PyStr(<<"c", "l", "_", "A", "B", "_", "k", "_", "z">>)}

\* explicit app ids: omitted, empty, two apps
ConfigureAppIds == {PyNone, PyStr(<<>>), PyStr(AppA), PyStr(AppB)}

InitConfigure ==
    /\ InitApi
    /\ _CONFIG = [api_key |-> PyNone, app_id |-> PyNone]

NextConfigure ==
    \/ \E api_key \in ConfigureKeys, app_id \in ConfigureAppIds : Configure(api_key, app_id)
    \/ GetAppId

SpecConfigure == InitConfigure /\ [][NextConfigure]_vars

\* the key has the form cl_<id>_<rest>
WellFormedKey(api_key) ==
    /\ api_key.t = "str"
    /\ MatchesAt(api_key.s, 1, KEY_PREFIX)
    /\ Len(Split(api_key.s, "_")) >= 3

\* C25 as stated: get_app_id called after configure(api_key=cl_<id>_<rest>)
\* without an app_id returns <id>, whatever calls of configure came before
C25_Original ==
    [][(/\ inputs.fn = "configure"
        /\ WellFormedKey(inputs.api_key)
        /\ inputs.app_id = PyNone
        /\ inputs'.fn = "get_app_id")
       => output'.value = PyStr(Split(inputs.api_key.s, "_")[2])]_vars

\* the id of the key is returned when no call of configure left an explicit
\* app_id behind
KeyIdWithoutExplicitAppId ==
    [][(/\ inputs.fn = "configure"
        /\ WellFormedKey(inputs.api_key)
        /\ ~Truthy(_CONFIG.app_id)
        /\ inputs'.fn = "get_app_id")
       => output'.value = PyStr(Split(inputs.api_key.s, "_")[2])]_vars

(***************************************************************************)
(* apply_template and values that look like placeholders (SpecFunctions)   *)
(***************************************************************************)
\* C26 as stated: the result of apply_template is the simultaneous
\* replacement of the placeholders of the original template string, also
\* when a substituted value has the form {name}
C26_Original ==
    (Applied /\ PlaceholderNames(inputs.template_string) # {})
        => output = Value(OnePass(inputs.template_string, 1))

(***************************************************************************)
(* The length of the returned message (SpecFunctions)                      *)
(***************************************************************************)
\* C27 as stated: for every positive max_length, 1 and 2 included, the
\* message _process_notification_content returns is at most max_length long
C27_Original ==
    (Processed /\ inputs.max_length # PyNone /\ inputs.max_length.n >= 1)
        => Len(output.value.message) <= inputs.max_length.n

\* the bound holds from max_length 3 on
LengthBoundFromThree ==
    (Processed /\ inputs.max_length # PyNone /\ inputs.max_length.n >= 3)
        => Len(output.value.message) <= inputs.max_length.n

(***************************************************************************)
(* generate_notification while a writer changes the placement document     *)
(***************************************************************************)
WriterTemplates ==
    [i \in {IdOf(1), IdOf(2)} |->
        [isActive |-> PyBool(TRUE), name |-> NameOf(i), weight |-> 1,
         title_template |-> <<"{", "x", "}">>, body_template |-> <<"a">>]]

\* a rule that admits one template whatever the variables
OnlyTemplate(id) ==
    [inputVariable |-> x, cases |-> <<>>, defaultTemplateIds |-> <<id>>]

\* the versions of the placement document: two with different names, rules and
\* defaults, and the deleted document
WriterOld ==
    [exists |-> TRUE,
     parent |-> [name |-> <<"P">>, previewDefaults |-> PreviewDefaults,
                 templateFilters |-> <<OnlyTemplate(IdOf(1))>>],
     templates |-> WriterTemplates, api_keys |-> {}]

WriterNew ==
    [exists |-> TRUE,
     parent |-> [name |-> <<"Q">>, templateFilters |-> <<OnlyTemplate(IdOf(2))>>],
     templates |-> WriterTemplates, api_keys |-> {}]

WriterDeleted ==
    [exists |-> FALSE, parent |-> EmptyDict, templates |-> WriterTemplates,
     api_keys |-> {}]

WriterVersions == {WriterOld, WriterNew, WriterDeleted}

\* an external writer replaces or deletes the placement document
Write(v) ==
    /\ v # db[AppA]
    /\ db' = [db EXCEPT ![AppA] = v]
    /\ UNCHANGED <<heap, history, sdk, request, inputs, output, collections, _CONFIG, pc, args,
                   placement_config, eligible_template_ids, template, result, reads,
                   response>>

InitWriter ==
    /\ db = [app \in Apps |-> IF app = AppA THEN WriterOld ELSE EmptyStore]
    /\ _CONFIG = [api_key |-> PyNone, app_id |-> PyStr(AppA)]
    /\ Idle

NextWriter ==
    \/ \E entry \in EntryPoints, variables \in VarSets, data \in DataArgs,
          fallback \in FallbackArgs, max_length \in MaxLengthArgs :
            Call(1, entry, variables, data, fallback, max_length)
    \/ Steps(1)
    \/ \E v \in WriterVersions : Write(v)

SpecWriter == InitWriter /\ [][NextWriter]_vars

\* every store read of call r returned
ReadsReturned(r) == \A i \in 1..Len(reads[r]) : reads[r][i].ok

\* C28 as stated: a call whose reads all return works from one version of
\* the placement document: its result is one the call produces when every read
\* sees that version, also when a writer updates or deletes the document
\* while the call is in progress
C28_Original ==
    \A r \in Calls :
        (Done(r) /\ ReadsReturned(r))
            => \E v \in WriterVersions :
                  result[r] \in OutcomesWith(v, args[r], FALSE, FALSE, "none")

\* without a writer the result is the one of the only version (specification
\* Spec)
OneVersionAlone ==
    \A r \in Calls :
        (Done(r) /\ ReadsReturned(r))
            => result[r] \in OutcomesWith(TheStore, args[r], FALSE, FALSE, "none")

(***************************************************************************)
(* generate_notification and the mapping objects it is handed              *)
(***************************************************************************)
\* a reference to mapping object o
Ref(o) == [ref |-> o]

IsRef(v) == "ref" \in DOMAIN v

\* bool(v) of an argument: a mapping object is true when it has items
TruthyIn(h, v) == IF IsRef(v) THEN DOMAIN h[v.ref] # {} ELSE Truthy(v)

\* {}, or a dict built from items: a new mapping object o
NewObject(h, o, items) ==
    [p \in (DOMAIN h) \cup {o} |-> IF p = o THEN items ELSE h[p]]

\* "v or {}": v itself when it is true, else a new empty mapping
OrNewDict(h, v, o) ==
    IF TruthyIn(h, v) THEN [heap |-> h, value |-> v]
    ELSE [heap |-> NewObject(h, o, EmptyDict), value |-> Ref(o)]

\* mutant: "merged_data = template_data", the same object under a new name
dict_copy_Alias(h, v, o) == [heap |-> h, value |-> v]

\* v.copy(): a new mapping object with the items of v
dict_copy(h, v, o) == [heap |-> NewObject(h, o, h[v.ref]), value |-> Ref(o)]

\* v.update(other): the items of other written into object v
dict_update(h, v, other) ==
    [h EXCEPT ![v.ref] = DictUpdate(h[v.ref], h[other.ref])]

\* the four "processed['data'][...] = ..." assignments on object v
SetAttribution(h, v, placement_name, template_id, template_name) ==
    [h EXCEPT ![v.ref] =
        WithAttribution(h[v.ref], placement_name, template_id, template_name)]

\* the "if template:" branch; a.variables and a.data after their "or {}"
SelectedOnHeap(h, a, t) ==
    LET defaults == Get(t.doc, "_placement_defaults", EmptyDict)
        template_data == IF TruthyIn(h, t.data) THEN t.data ELSE t._placement_data
        merged_data == dict_copy(h, template_data, "merged_data")
    IN  IF ~IsRef(a.data)
        THEN [heap |-> merged_data.heap, outcome |-> Exception("ValueError")]
        ELSE LET h2 == dict_update(merged_data.heap, merged_data.value, a.data)
                 processed == _process_notification_content(
                                 Get(t.doc, "title_template", <<>>),
                                 Get(t.doc, "body_template", <<>>),
                                 h2[merged_data.value.ref], h2[a.variables.ref],
                                 defaults, a.max_length)
                 h3 == NewObject(h2, "processed_data", processed.data)
             IN  [heap |-> SetAttribution(h3, Ref("processed_data"),
                                          Get(t.doc, "_placement_name", PlacementId),
                                          Get(t.doc, "id", UNKNOWN_ID),
                                          Get(t.doc, "name", UNKNOWN_NAME)),
                  outcome |-> [kind |-> "returned",
                               title |-> PyStr(processed.title),
                               message |-> PyStr(processed.message),
                               data |-> Ref("processed_data"),
                               template_used |-> TRUE,
                               template_name |-> PyStr(Get(t.doc, "name", UNKNOWN_NAME))]]

\* the else branch; a.variables and a.data after their "or {}"
FallbackOnHeap(h, a, cfg) ==
    IF ~IsRef(a.data)
    THEN [heap |-> h, outcome |-> Exception("AttributeError")]
    ELSE LET defaults == IF cfg.isNone THEN EmptyDict ELSE cfg.defaults
             processed == _process_notification_content(
                             OrEmptyStr(a.fallback_title),
                             OrEmptyStr(a.fallback_message),
                             h[a.data.ref], h[a.variables.ref],
                             defaults, a.max_length)
             placement_name == IF cfg.isNone THEN PlacementId ELSE cfg.name
             h2 == NewObject(h, "processed_data", processed.data)
         IN  [heap |-> SetAttribution(h2, Ref("processed_data"), placement_name,
                                      FALLBACK_ID, FALLBACK_NAME),
              outcome |-> [kind |-> "returned",
                           title |-> PyStr(processed.title),
                           message |-> PyStr(processed.message),
                           data |-> Ref("processed_data"),
                           template_used |-> FALSE,
                           template_name |-> PyNone]]

\* generate_notification on mapping objects: t is what get_random_template
\* returned, cfg what the else branch reads
generate_notification(h, a, t, cfg) ==
    LET vs == OrNewDict(h, a.variables, "variables_or")
        ds == OrNewDict(vs.heap, a.data, "data_or")
        b == [a EXCEPT !.variables = vs.value, !.data = ds.value]
    IN  IF t.isNone THEN FallbackOnHeap(ds.heap, b, cfg)
        ELSE SelectedOnHeap(ds.heap, b, t)

\* generate_notification_safe on mapping objects
generate_notification_safe(h, a, t, cfg) ==
    LET out == generate_notification(h, a, t, cfg)
    IN  IF out.outcome.kind # "raised" THEN out
        ELSE LET d == OrNewDict(out.heap, a.data, "except_data")
             IN  [heap |-> d.heap,
                  outcome |-> [kind |-> "returned",
                               title |-> a.fallback_title,
                               message |-> a.fallback_message,
                               data |-> d.value,
                               template_used |-> FALSE,
                               template_name |-> PyNone,
                               error |-> out.outcome.error]]

\* everything but the mapping objects and the outcome of the call stays
NoObjectStep ==
    UNCHANGED <<db, _CONFIG, pc, args, placement_config, eligible_template_ids,
                template, result, reads, request, response, collections, inputs,
                history, sdk>>

CallGenerateNotification ==
    /\ inputs.fn = "generate_notification"
    /\ output = NoOutput
    /\ LET out == generate_notification(heap, inputs, inputs.template,
                                        inputs.placement_config)
       IN  /\ heap' = out.heap
           /\ output' = out.outcome
    /\ NoObjectStep

CallGenerateNotificationSafe ==
    /\ inputs.fn = "generate_notification_safe"
    /\ output = NoOutput
    /\ LET out == generate_notification_safe(heap, inputs, inputs.template,
                                             inputs.placement_config)
       IN  /\ heap' = out.heap
           /\ output' = out.outcome
    /\ NoObjectStep

\* the placement documents and template documents of the fetch
HeapParents ==
    {EmptyDict,
     [name |-> <<"P">>, previewDefaults |-> PreviewDefaults,
      defaultData |-> PlacementData,
      templateFilters |-> <<>>, activeTemplateIds |-> <<>>]}

HeapTemplateDocs == {doc \in TemplateDocs(IdOf(1)) : IsActive(doc)}

\* the data and variables arguments: omitted, an empty mapping, a mapping
\* with items, and (data) a value that is not a mapping
HeapDataArgs == {"None", "empty", "items", "not_a_mapping"}

HeapVariableArgs == {"None", "empty", "items"}

\* the mapping objects before the call: the caller's two arguments, the
\* template's own data and the placement's default data
ObjectsBefore(variables, data, selected, doc, parent) ==
    LET h1 == CASE variables = "empty" -> NewObject(NoHeap, "variables", EmptyDict)
                [] variables = "items" ->
                     NewObject(NoHeap, "variables",
                               (x :> PyStr(<<"a">>)) @@ (COPYLAB_TEMPLATE_ID_VAR :> HACKED))
                [] OTHER -> NoHeap
        h2 == CASE data = "empty" -> NewObject(h1, "data", EmptyDict)
                [] data = "items" -> NewObject(h1, "data", CallerData)
                [] OTHER -> h1
        h3 == IF selected /\ "data" \in DOMAIN doc
              THEN NewObject(h2, "template_data", doc.data) ELSE h2
    IN  IF selected
        THEN NewObject(h3, "_placement_data", Get(parent, "defaultData", EmptyDict))
        ELSE h3

InitObjects ==
    /\ db = [app \in Apps |-> EmptyStore]
    /\ _CONFIG = [api_key |-> PyNone, app_id |-> PyStr(AppA)]
    /\ pc = [r \in Calls |-> "idle"]
    /\ args = [r \in Calls |-> NoArgs]
    /\ placement_config = [r \in Calls |-> NoConfig]
    /\ eligible_template_ids = [r \in Calls |-> NoRestriction]
    /\ template = [r \in Calls |-> NoTemplate]
    /\ result = [r \in Calls |-> NoResult]
    /\ reads = [r \in Calls |-> <<>>]
    /\ request = [r \in Calls |-> NoRequest]
    /\ response = [r \in Calls |-> NoResponse]
    /\ collections = [app \in Apps |-> EmptyCollections]
    /\ history = <<>>
    /\ sdk = NoSdk
    /\ output = NoOutput
    /\ \E entry \in EntryPoints, variables \in HeapVariableArgs, data \in HeapDataArgs,
          fallback \in FallbackArgs, selected \in BOOLEAN,
          doc \in HeapTemplateDocs, parent \in HeapParents :
        /\ heap = ObjectsBefore(variables, data, selected, doc, parent)
        /\ inputs =
            [fn |-> entry,
             variables |-> IF variables = "None" THEN PyNone ELSE Ref("variables"),
             data |-> CASE data = "None" -> PyNone
                        [] data = "not_a_mapping" -> NotAMapping
                        [] OTHER -> Ref("data"),
             fallback_title |->
                IF fallback.given THEN fallback.title
                ELSE IF entry = "generate_notification_safe" THEN PyStr(NOTIFICATION)
                ELSE PyNone,
             fallback_message |->
                IF fallback.given THEN fallback.message
                ELSE IF entry = "generate_notification_safe" THEN PyStr(<<>>)
                ELSE PyNone,
             max_length |-> PyInt(DefaultMaxLength),
             template |->
                IF selected
                THEN [isNone |-> FALSE,
                      doc |-> WithPlacement(WithId(doc, IdOf(1)), parent),
                      data |-> IF "data" \in DOMAIN doc THEN Ref("template_data")
                               ELSE PyNone,
                      _placement_data |-> Ref("_placement_data")]
                ELSE NoTemplate,
             placement_config |->
                get_placement_config(
                    [exists |-> parent # EmptyDict, parent |-> parent], FALSE),
             before |-> ObjectsBefore(variables, data, selected, doc, parent)]

NextObjects ==
    \/ CallGenerateNotification
    \/ CallGenerateNotificationSafe

SpecObjects == InitObjects /\ [][NextObjects]_vars

\* one of the two entry points was called and has returned or raised
Called == inputs.fn \in EntryPoints /\ output # NoOutput

\* C29: after a call of generate_notification or generate_notification_safe,
\* on either branch, every mapping that existed before the call (the
\* caller's data, the caller's variables, the fetched template's own data,
\* the placement's default data) holds exactly the items it held before, and
\* a result that carries attribution keys carries them in a mapping object
\* created by the call
C29_InputsUnchanged ==
    Called =>
        /\ \A o \in DOMAIN inputs.before :
                o \in DOMAIN heap /\ heap[o] = inputs.before[o]
        /\ (output.kind = "returned" /\ "error" \notin DOMAIN output)
                => /\ output.data.ref \notin DOMAIN inputs.before
                   /\ AttributionKeys \subseteq DOMAIN heap[output.data.ref]

\* a template with data of its own was merged with the caller's non-empty
\* data: the result holds the caller's key and the attribution, the caller's
\* mapping and the template's do not
C29_Witness ==
    /\ Called
    /\ ~inputs.template.isNone
    /\ IsRef(inputs.template.data)
    /\ IsRef(inputs.data)
    /\ IsRef(inputs.variables)
    /\ heap["data"] = CallerData
    /\ heap["template_data"] = TemplateData
    /\ output.kind = "returned"
    /\ heap[output.data.ref]["copylab_template_id"] = PyStr(IdOf(1))
    /\ heap[output.data.ref]["n"] = PyInt(7)
    /\ heap[output.data.ref]["j"] = PyStr(<<"a">>)

(***************************************************************************)
(* The statuses of the HTTP endpoints                                      *)
(***************************************************************************)
\* a store operation of request r raised
StoreFailed(r) == \E i \in 1..Len(reads[r]) : ~reads[r][i].ok

\* the statuses the handlers pass to cors_response
HandlerStatuses == {200, 400, 401, 405, 500}

\* C30 as stated: every request is answered with a status among 200, 400,
\* 401, 405 and 500, and a request during which a store operation raised,
\* the API-key lookup included, is answered 500 with an error field
C30_Original ==
    \A r \in Calls :
        Answered(r) =>
            /\ response[r].status \in HandlerStatuses
            /\ StoreFailed(r) => /\ response[r].status = 500
                                 /\ "error" \in DOMAIN response[r].body

\* what does hold: a request whose API-key lookup returned is answered by
\* cors_response with one of the five statuses
StatusAfterLookup ==
    \A r \in Calls :
        (Answered(r) /\ LookupCompleted(r))
            => response[r].status \in HandlerStatuses

====
